---- MODULE Spec2Model ----
(***************************************************************************)
(* Model of rspamd's chartable plugin (src/plugins/chartable.c): the       *)
(* confusable table, the two per-word scorers and the three detection      *)
(* entry points.                                                           *)
(*                                                                         *)
(* gdouble values are modelled as exact rationals [n, d] in lowest terms.  *)
(* Words are sequences of bytes (0..255), decoded as the code decodes them.*)
(***************************************************************************)
EXTENDS Integers, Sequences, FiniteSets, TLC

(***************************************************************************)
(* gdouble arithmetic, as exact rationals                                  *)
(***************************************************************************)
RECURSIVE GCD(_, _)
GCD(a, b) == IF b = 0 THEN a ELSE GCD(b, a % b)

Abs(x) == IF x < 0 THEN -x ELSE x

Rat(n, d) ==
    LET g == GCD(Abs(n), d)
    IN  [n |-> n \div g, d |-> d \div g]

RZero == Rat(0, 1)
RAdd(a, b) == Rat(a.n * b.d + b.n * a.d, a.d * b.d)
RDivN(a, k) == Rat(a.n, a.d * k)
RGt(a, b) == a.n * b.d > b.n * a.d
RLe(a, b) == ~RGt(a, b)

\* the literals of the source
R_0_25 == Rat(1, 4)
R_2_0 == Rat(2, 1)
R_4_0 == Rat(4, 1)
DEFAULT_THRESHOLD == Rat(1, 10)
DEFAULT_SYMBOL == "R_MIXED_CHARSET"
DEFAULT_URL_SYMBOL == "R_MIXED_CHARSET_URL"
NULL == "NULL"

(***************************************************************************)
(* The confusable table                                                    *)
(***************************************************************************)
\* An excerpt of the literal array: its first and last entries and the
\* entries among the code points the model's words are made of
\* (0x2028, 0x430, 0x410, 0x443, 0x118a9).
latin_confusable == <<8232, 1072, 1040, 1091, 71849>>

G_N_ELEMENTS(arr) == Len(arr)

\* GHashTable *latin_confusable_ht = NULL: the pointer (null or not) and the
\* keys of the table it points to
HT_NULL == [null |-> TRUE, keys |-> {}]

\* g_hash_table_new + the insert loop, run to completion by one caller
BuildConfusable ==
    [null |-> FALSE,
     keys |-> { latin_confusable[i] : i \in 1..G_N_ELEMENTS(latin_confusable) }]

\* g_hash_table_lookup (ht, &ch) != NULL
g_hash_table_lookup(ht, ch) == ch \in ht.keys

\* the call that builds the table answering from the table it found
rspamd_can_alias_latin_StaleLookup(ht, ch) ==
    LET built == IF ht.null THEN BuildConfusable ELSE ht
    IN  [ht |-> built, res |-> g_hash_table_lookup(ht, ch)]

\* rspamd_can_alias_latin called by a single task: [ht |-> the global after
\* the call, res |-> the membership test]
rspamd_can_alias_latin(ht, ch) ==
    LET built == IF ht.null THEN BuildConfusable ELSE ht
    IN  [ht |-> built, res |-> g_hash_table_lookup(built, ch)]

(***************************************************************************)
(* ICU: decoding and character properties, for the code points below U+0800 *)
(***************************************************************************)
U_SENTINEL == -1

IsTrail(b) == b >= 128 /\ b <= 191

\* U8_NEXT(s, i, length, c): s is 1-based here, i is the 0-based offset
U8_NEXT(s, i, length) ==
    LET c == s[i + 1]
    IN  IF c < 128 THEN [uc |-> c, i |-> i + 1]
        ELSE IF c > 224 /\ c <= 236 /\ i + 2 < length
                /\ IsTrail(s[i + 2]) /\ IsTrail(s[i + 3])
             THEN [uc |-> ((c % 16) * 4096) + ((s[i + 2] - 128) * 64) + (s[i + 3] - 128),
                   i |-> i + 3]
        ELSE IF c < 224 /\ c >= 194 /\ i + 1 < length /\ IsTrail(s[i + 2])
             THEN [uc |-> ((c % 32) * 64) + (s[i + 2] - 128), i |-> i + 2]
        ELSE [uc |-> U_SENTINEL, i |-> i + 1]

\* g_utf8_validate for the byte sequences U8_NEXT decodes here
RECURSIVE Utf8ValidFrom(_, _)
Utf8ValidFrom(s, i) ==
    IF i >= Len(s) THEN TRUE
    ELSE LET r == U8_NEXT(s, i, Len(s))
         IN  r.uc >= 0 /\ r.uc # 0 /\ Utf8ValidFrom(s, r.i)

g_utf8_validate(s) == Utf8ValidFrom(s, 0)

u_isalpha(uc) ==
    \/ uc \in 65..90 \/ uc \in 97..122
    \/ uc \in (192..255) \ {215, 247}
    \/ uc \in (913..937) \ {930} \/ uc \in 945..969
    \/ uc \in 1040..1103

u_isupper(uc) ==
    \/ uc \in 65..90
    \/ uc \in (192..222) \ {215}
    \/ uc \in (913..937) \ {930}
    \/ uc \in 1040..1071

u_isdigit(uc) == uc \in 48..57 \/ uc \in 1632..1641

UBLOCK_BASIC_LATIN == 1
UBLOCK_COMBINING_DIACRITICAL_MARKS == 7
UBLOCK_GREEK == 8
UBLOCK_CYRILLIC == 9
UBLOCK_LATIN_EXTENDED_ADDITIONAL == 38
UBLOCK_OTHER == 100

ublock_getCode(uc) ==
    IF uc < 128 THEN UBLOCK_BASIC_LATIN
    ELSE IF uc < 256 THEN 2
    ELSE IF uc < 384 THEN 3
    ELSE IF uc < 592 THEN 4
    ELSE IF uc < 688 THEN 5
    ELSE IF uc < 768 THEN 6
    ELSE IF uc < 880 THEN UBLOCK_COMBINING_DIACRITICAL_MARKS
    ELSE IF uc < 1024 THEN UBLOCK_GREEK
    ELSE IF uc < 1280 THEN UBLOCK_CYRILLIC
    ELSE IF uc >= 7680 /\ uc < 7936 THEN UBLOCK_LATIN_EXTENDED_ADDITIONAL
    ELSE UBLOCK_OTHER

g_ascii_isalpha(b) == b \in 65..90 \/ b \in 97..122
g_ascii_isdigit(b) == b \in 48..57
g_ascii_isxdigit(b) == b \in 48..57 \/ b \in 65..70 \/ b \in 97..102

(***************************************************************************)
(* rspamd_chartable_process_word_utf                                       *)
(***************************************************************************)
start_process == "start_process"
got_alpha == "got_alpha"
got_digit == "got_digit"
got_unknown == "got_unknown"

\* the locals with the run counter started at 1 in place of 0
UtfLocals_Counting(ht) ==
    [i |-> 0, badness |-> RZero, last_is_latin |-> -1, same_script_count |-> 1,
     nsym |-> 0, state |-> start_process, prev_state |-> start_process,
     ncap |-> 0, ht |-> ht]

\* the locals at function entry; ncap is the caller's counter (counted only
\* when the caller passes one), ht the global table
UtfLocals(ht) ==
    [i |-> 0, badness |-> RZero, last_is_latin |-> -1, same_script_count |-> 0,
     nsym |-> 0, state |-> start_process, prev_state |-> start_process,
     ncap |-> 0, ht |-> ht]

\* the script bucket of an alphabetic code point
UtfScript(uc) ==
    LET sc == ublock_getCode(uc)
    IN  IF sc <= UBLOCK_COMBINING_DIACRITICAL_MARKS
           \/ sc = UBLOCK_LATIN_EXTENDED_ADDITIONAL
        THEN UBLOCK_BASIC_LATIN ELSE sc

\* the digit -> alpha penalty added for Latin letters as well
UtfDigitPenalty_AnyScript(l, sc, is_url) ==
    IF ~is_url /\ l.prev_state # start_process
    THEN RAdd(l.badness, R_0_25) ELSE l.badness

\* the digit -> alpha penalty added in hostname context as well
UtfDigitPenalty_InUrl(l, sc, is_url) ==
    IF sc # UBLOCK_BASIC_LATIN /\ l.prev_state # start_process
    THEN RAdd(l.badness, R_0_25) ELSE l.badness

\* the digit -> alpha penalty without the prev_state condition
UtfDigitPenalty_AnyPrev(l, sc, is_url) ==
    IF ~is_url /\ sc # UBLOCK_BASIC_LATIN
    THEN RAdd(l.badness, R_0_25) ELSE l.badness

\* the penalty of a digit -> alpha transition
UtfDigitPenalty(l, sc, is_url) ==
    IF ~is_url /\ sc # UBLOCK_BASIC_LATIN /\ l.prev_state # start_process
    THEN RAdd(l.badness, R_0_25) ELSE l.badness

\* the branch tracking the Latin bucket again when a Latin letter follows a
\* non-Latin one
UtfAlphaRun_Retrack(l, uc, sc) ==
    IF l.same_script_count > 0
    THEN IF sc # UBLOCK_BASIC_LATIN /\ l.last_is_latin # 0
         THEN LET a == rspamd_can_alias_latin(l.ht, uc)
              IN  [l EXCEPT !.badness = IF a.res
                                        THEN RAdd(@, Rat(1, l.same_script_count))
                                        ELSE @,
                            !.ht = a.ht,
                            !.last_is_latin = 0,
                            !.same_script_count = 1]
         ELSE IF sc = UBLOCK_BASIC_LATIN /\ l.last_is_latin = 0
         THEN [l EXCEPT !.last_is_latin = 1, !.same_script_count = 1]
         ELSE [l EXCEPT !.same_script_count = @ + 1]
    ELSE [l EXCEPT !.last_is_latin = IF sc = UBLOCK_BASIC_LATIN THEN 1 ELSE 0,
                   !.same_script_count = 1]

\* the branch taken inside an alphabetic run
UtfAlphaRun(l, uc, sc) ==
    IF l.same_script_count > 0
    THEN IF sc # UBLOCK_BASIC_LATIN /\ l.last_is_latin # 0
         THEN LET a == rspamd_can_alias_latin(l.ht, uc)
              IN  [l EXCEPT !.badness = IF a.res
                                        THEN RAdd(@, Rat(1, l.same_script_count))
                                        ELSE @,
                            !.ht = a.ht,
                            !.last_is_latin = 0,
                            !.same_script_count = 1]
         ELSE [l EXCEPT !.same_script_count = @ + 1]
    ELSE [l EXCEPT !.last_is_latin = IF sc = UBLOCK_BASIC_LATIN THEN 1 ELSE 0,
                   !.same_script_count = 1]

\* the iteration in which digits and other characters leave the state and
\* the run counter alone
UtfBody_NoReset(l, uc, is_url, has_ncap) ==
    LET counted ==
          IF u_isalpha(uc)
          THEN LET sc == UtfScript(uc)
                   l1 == IF sc # UBLOCK_BASIC_LATIN /\ u_isupper(uc) /\ has_ncap
                         THEN [l EXCEPT !.ncap = @ + 1] ELSE l
                   l2 == IF l1.state = got_digit
                         THEN [l1 EXCEPT !.badness = UtfDigitPenalty(l1, sc, is_url)]
                         ELSE IF l1.state = got_alpha
                         THEN UtfAlphaRun(l1, uc, sc)
                         ELSE l1
               IN  [l2 EXCEPT !.prev_state = l1.state, !.state = got_alpha]
          ELSE l
    IN  [counted EXCEPT !.nsym = @ + 1]

\* the iteration counting every non-Latin letter, whatever its case
UtfBody_CountAnyCase(l, uc, is_url, has_ncap) ==
    LET counted ==
          IF u_isalpha(uc)
          THEN LET sc == UtfScript(uc)
                   l1 == IF sc # UBLOCK_BASIC_LATIN /\ has_ncap
                         THEN [l EXCEPT !.ncap = @ + 1] ELSE l
                   l2 == IF l1.state = got_digit
                         THEN [l1 EXCEPT !.badness = UtfDigitPenalty(l1, sc, is_url)]
                         ELSE IF l1.state = got_alpha
                         THEN UtfAlphaRun(l1, uc, sc)
                         ELSE l1
               IN  [l2 EXCEPT !.prev_state = l1.state, !.state = got_alpha]
          ELSE IF u_isdigit(uc)
          THEN [l EXCEPT !.prev_state = IF l.state # got_digit THEN l.state ELSE @,
                         !.state = got_digit,
                         !.same_script_count = 0]
          ELSE [l EXCEPT !.prev_state = IF l.state # got_unknown THEN l.state ELSE @,
                         !.state = got_unknown,
                         !.same_script_count = 0]
    IN  [counted EXCEPT !.nsym = @ + 1]

\* one iteration of the while loop, after a valid code point uc was decoded
UtfBody(l, uc, is_url, has_ncap) ==
    LET counted ==
          IF u_isalpha(uc)
          THEN LET sc == UtfScript(uc)
                   l1 == IF sc # UBLOCK_BASIC_LATIN /\ u_isupper(uc) /\ has_ncap
                         THEN [l EXCEPT !.ncap = @ + 1] ELSE l
                   l2 == IF l1.state = got_digit
                         THEN [l1 EXCEPT !.badness = UtfDigitPenalty(l1, sc, is_url)]
                         ELSE IF l1.state = got_alpha
                         THEN UtfAlphaRun(l1, uc, sc)
                         ELSE l1
               IN  [l2 EXCEPT !.prev_state = l1.state, !.state = got_alpha]
          ELSE IF u_isdigit(uc)
          THEN [l EXCEPT !.prev_state = IF l.state # got_digit THEN l.state ELSE @,
                         !.state = got_digit,
                         !.same_script_count = 0]
          ELSE [l EXCEPT !.prev_state = IF l.state # got_unknown THEN l.state ELSE @,
                         !.state = got_unknown,
                         !.same_script_count = 0]
    IN  [counted EXCEPT !.nsym = @ + 1]

\* the loop forgetting the badness gathered so far at an invalid code point
RECURSIVE UtfLoop_DropOnInvalid(_, _, _, _)
UtfLoop_DropOnInvalid(l, w, is_url, has_ncap) ==
    IF l.i < Len(w)
    THEN LET r == U8_NEXT(w, l.i, Len(w))
         IN  IF r.uc < 0 THEN [l EXCEPT !.badness = RZero]
             ELSE UtfLoop_DropOnInvalid(
                      UtfBody([l EXCEPT !.i = r.i], r.uc, is_url, has_ncap),
                      w, is_url, has_ncap)
    ELSE l

\* the while loop: it ends at the end of the word or at the first code point
\* U8_NEXT cannot decode
RECURSIVE UtfLoop(_, _, _, _)
UtfLoop(l, w, is_url, has_ncap) ==
    IF l.i < Len(w)
    THEN LET r == U8_NEXT(w, l.i, Len(w))
         IN  IF r.uc < 0 THEN l
             ELSE UtfLoop(UtfBody([l EXCEPT !.i = r.i], r.uc, is_url, has_ncap),
                          w, is_url, has_ncap)
    ELSE l

\* no cap at all
CapBadness_None(badness) == badness

\* the cap with its comparison turned around: the larger of the two
CapBadness_Max(badness) == IF RGt(badness, R_4_0) THEN badness ELSE R_4_0

\* the 4.0 cap of a word's badness
CapBadness(badness) == IF RGt(badness, R_4_0) THEN R_4_0 ELSE badness

\* the tail without the length guard
UtfFinish_NoGuard(l, max_word_len) == CapBadness(l.badness)

\* the tail of the function: the length guard, then the cap
UtfFinish(l, max_word_len) ==
    IF l.nsym > max_word_len THEN RZero ELSE CapBadness(l.badness)

rspamd_chartable_process_word_utf(w, is_url, has_ncap, ht, max_word_len) ==
    LET l == UtfLoop(UtfLocals(ht), w, is_url, has_ncap)
    IN  [badness |-> UtfFinish(l, max_word_len), ncap |-> l.ncap, ht |-> l.ht,
         nsym |-> l.nsym, raw |-> l.badness]

(***************************************************************************)
(* rspamd_chartable_process_word_ascii                                     *)
(***************************************************************************)
\* the enum { ascii = 1, non_ascii } of the source; last_sc starts at 0
sc_ascii == 1
sc_non_ascii == 2

AsciiLocals ==
    [p |-> 0, badness |-> RZero, last_sc |-> 0, same_script_count |-> 0,
     seen_alpha |-> FALSE, state |-> start_process]

\* the digit -> alpha penalty without the seen_alpha condition
AsciiDigitPenalty_NoSeenAlpha(l, b, is_url) ==
    IF ~is_url /\ ~g_ascii_isxdigit(b)
    THEN RAdd(l.badness, R_0_25) ELSE l.badness

\* the penalty of a digit -> alpha transition
AsciiDigitPenalty(l, b, is_url) ==
    IF l.seen_alpha /\ ~is_url /\ ~g_ascii_isxdigit(b)
    THEN RAdd(l.badness, R_0_25) ELSE l.badness

AsciiAlphaRun(l, b) ==
    LET sc == IF b > 127 THEN sc_ascii ELSE sc_non_ascii
    IN  IF l.same_script_count > 0
        THEN IF sc # l.last_sc
             THEN [l EXCEPT !.badness = RAdd(@, Rat(1, l.same_script_count)),
                            !.last_sc = sc,
                            !.same_script_count = 1]
             ELSE [l EXCEPT !.same_script_count = @ + 1]
        ELSE [l EXCEPT !.last_sc = sc, !.same_script_count = 1]

AsciiBody(l, b, is_url) ==
    LET stepped ==
          IF g_ascii_isalpha(b) \/ b > 127
          THEN LET l2 == IF l.state = got_digit
                         THEN [l EXCEPT !.badness = AsciiDigitPenalty(l, b, is_url)]
                         ELSE IF l.state = got_alpha
                         THEN AsciiAlphaRun(l, b)
                         ELSE l
               IN  [l2 EXCEPT !.seen_alpha = TRUE, !.state = got_alpha]
          ELSE IF g_ascii_isdigit(b)
          THEN [l EXCEPT !.state = got_digit, !.same_script_count = 0]
          ELSE [l EXCEPT !.state = got_unknown, !.same_script_count = 0]
    IN  [stepped EXCEPT !.p = @ + 1]

RECURSIVE AsciiLoop(_, _, _)
AsciiLoop(l, w, is_url) ==
    IF l.p < Len(w)
    THEN AsciiLoop(AsciiBody(l, w[l.p + 1], is_url), w, is_url)
    ELSE l

rspamd_chartable_process_word_ascii(w, is_url, max_word_len) ==
    IF Len(w) > max_word_len
    THEN [badness |-> RZero, raw |-> RZero, scanned |-> 0]
    ELSE LET l == AsciiLoop(AsciiLocals, w, is_url)
         IN  [badness |-> CapBadness(l.badness), raw |-> l.badness, scanned |-> l.p]

(***************************************************************************)
(* Words of the model                                                      *)
(***************************************************************************)
MaxChars == 3

\* characters as UTF-8 byte sequences: a, y, 1, '.', U+0430, U+03C9, U+0410,
\* and the byte 0xFF, which no UTF-8 sequence contains
Alphabet ==
    { <<97>>, <<121>>, <<49>>, <<46>>, <<208, 176>>, <<207, 137>>, <<208, 144>>,
      <<255>> }

RECURSIVE WordsOfChars(_)
WordsOfChars(n) ==
    IF n = 0 THEN { <<>> }
    ELSE LET shorter == WordsOfChars(n - 1)
         IN  shorter \cup { u \o c : u \in shorter, c \in Alphabet }

W_omega_indow == <<207, 137, 105, 110, 100, 111, 119>>
H_paypal == <<112, 97, 121, 112, 97, 108, 46, 99, 111, 109>>
H_paypal_cyr_a == <<112, 208, 176, 121, 112, 97, 108, 46, 99, 111, 109>>
H_paypal_cyr_u == <<112, 97, 209, 131, 112, 97, 108, 46, 99, 111, 109>>
\* "aa" U+0430 "1" U+0430 "a" U+0430: two script switches and one digit -> alpha
W_two_switches == <<97, 97, 208, 176, 49, 208, 176, 97, 208, 176>>
\* the same pattern four times over, 15 code points
W_many_switches ==
    <<97, 97, 208, 176, 49, 208, 176, 97, 208, 176, 49, 208, 176, 97, 208, 176,
      49, 208, 176, 97, 208, 176>>
\* ASCII letters and 0xFF bytes in alternation: not valid UTF-8
W_bytes_alternating == <<97, 97, 255, 97, 255, 97, 255>>
W_bytes_switch == <<97, 97, 255>>
W_eleven == <<97, 97, 208, 176, 97, 97, 97, 97, 97, 97, 97, 97>>
\* U+0410 "aa" U+0430 and the lead byte 0xD0 of a sequence that never ends
W_upper_cut == <<208, 144, 97, 97, 208, 176, 208>>

NamedWords ==
    { W_omega_indow, H_paypal, H_paypal_cyr_a, H_paypal_cyr_u, W_two_switches,
      W_many_switches, W_bytes_alternating, W_bytes_switch, W_eleven, W_upper_cut }

\* "aa" U+0430 "a" U+0430: one run of letters, to another script and back, twice
W_switch_back == <<97, 97, 208, 176, 97, 208, 176>>

\* the words the per-word specification scores
WordPool == WordsOfChars(MaxChars) \cup NamedWords \cup { W_switch_back }

\* the host names among the named words
HostNames == { H_paypal, H_paypal_cyr_a, H_paypal_cyr_u }

\* the words the text parts and the subject are made of
SampleWords ==
    (NamedWords \ HostNames) \cup
    { <<>>, <<97, 97, 208, 176>>, <<97, 49, 208, 176>>, <<208, 144, 208, 144>>,
      <<97, 49, 121>> }

\* the hosts of the URLs and of the email addresses
SampleHosts ==
    HostNames \cup
    { <<>>, <<97, 97, 208, 176>>, W_two_switches, W_bytes_alternating, W_bytes_switch }

\* the tokens of the text parts: every word flagged as text, two of them
\* also without the flag
SampleTokens ==
    [bytes : SampleWords, text : {TRUE}]
      \cup [bytes : { W_upper_cut, <<97, 97, 208, 176>> }, text : {FALSE}]

(***************************************************************************)
(* State                                                                   *)
(***************************************************************************)
MaxParts == 2
MaxWords == 2
MaxHosts == 2

VARIABLES
    ctx,                  \* struct chartable_ctx, and whether the callbacks are registered
    latin_confusable_ht,  \* the global table
    pc,                   \* where the worker is
    todo,                 \* the callbacks the scheduler still owes the current message
    part_idx,             \* chartable_symbol_callback: i; url callback: entries iterated
    part,                 \* the text part (or the subject's tokens) being processed
    wi,                   \* the word loop's i
    cur_score,            \* the running gdouble cur_score
    ncap,                 \* rspamd_chartable_process_part: ncap
    w,                    \* the word or host handed to the word loop last
    results,              \* the calls of rspamd_task_insert_result for this message
    last,                 \* the last comparison with the threshold
    iterated,             \* the entries both loops of the url callback have taken
    word_in,              \* per-word runs: the arguments of the scorers
    word_out,             \* per-word runs: what the scorers returned
    ht_heap,              \* concurrent runs: the tables g_hash_table_new has made
    ht_global,            \* concurrent runs: the pointer in latin_confusable_ht
    tasks,                \* concurrent runs: each caller of rspamd_can_alias_latin
    late_write,           \* concurrent runs: an insert followed some lookup
    module_opts,          \* configuration runs: the section chartable_module_config read
    task_urls,            \* iteration-order runs: the hosts of task->urls
    task_emails,          \* iteration-order runs: the hosts of task->emails
    urls_left,            \* iteration-order runs: entries the URL iterator has not returned
    emails_left,          \* iteration-order runs: entries the email iterator has not returned
    scan                  \* stepwise runs: the locals of the word scan in progress

vars ==
    <<ctx, latin_confusable_ht, pc, todo, part_idx, part, wi, cur_score, ncap, w,
      results, last, iterated, word_in, word_out, ht_heap, ht_global, tasks,
      late_write, module_opts, task_urls, task_emails, urls_left, emails_left, scan>>

\* the variables only the per-word, the concurrent and the configuration runs use
word_vars == <<word_in, word_out>>
race_vars == <<ht_heap, ht_global, tasks, late_write>>
config_vars == <<module_opts>>
order_vars == <<task_urls, task_emails, urls_left, emails_left>>
step_vars == <<scan>>
aux_vars == <<word_vars, race_vars, config_vars, order_vars, step_vars>>

\* the variables of one message's scan
scan_vars ==
    <<pc, todo, part_idx, part, wi, cur_score, ncap, w, results, last, iterated>>

NoPart == [words_null |-> TRUE, len |-> 0, utf |-> FALSE, capital_letters |-> 0]
NoWord == [bytes |-> <<>>, text |-> FALSE, path |-> "none"]
NoCmp == [site |-> "none", score |-> RZero, emitted |-> FALSE]
NoWordIn == [bytes |-> <<>>, is_url |-> FALSE]
NoUtfOut == [badness |-> RZero, ncap |-> 0, ht |-> HT_NULL, nsym |-> 0, raw |-> RZero]
NoAsciiOut == [badness |-> RZero, raw |-> RZero, scanned |-> 0]
NoWordOut ==
    [utf_done |-> FALSE, utf |-> NoUtfOut, ascii_done |-> FALSE, ascii |-> NoAsciiOut]

\* the scan variables before any message
ScanIdle ==
    /\ todo = {}
    /\ part_idx = 0
    /\ part = NoPart
    /\ wi = 0
    /\ cur_score = RZero
    /\ ncap = 0
    /\ w = NoWord
    /\ results = <<>>
    /\ last = NoCmp
    /\ iterated = 0

\* no configuration section read
NoOptions ==
    [enabled |-> FALSE, symbol |-> [present |-> FALSE, ok |-> FALSE, val |-> NULL],
     url_symbol |-> [present |-> FALSE, ok |-> FALSE, val |-> NULL],
     threshold |-> [present |-> FALSE, ok |-> FALSE, val |-> RZero],
     max_word_len |-> [present |-> FALSE, ok |-> FALSE, val |-> 0]]

\* no hash tables of URLs and emails
OrderIdle ==
    /\ task_urls = <<>>
    /\ task_emails = <<>>
    /\ urls_left = {}
    /\ emails_left = {}

\* no word scan in progress
NoScan == [path |-> "none", l |-> [i |-> 0], from |-> 0, stop |-> "none"]

StepIdle == scan = NoScan

\* the per-word, concurrent, configuration, iteration-order and stepwise
\* variables when they are not in use
AuxIdle ==
    /\ word_in = NoWordIn
    /\ word_out = NoWordOut
    /\ ht_heap = <<>>
    /\ ht_global = 0
    /\ tasks = <<>>
    /\ late_write = FALSE
    /\ module_opts = NoOptions
    /\ OrderIdle
    /\ StepIdle

(***************************************************************************)
(* chartable_module_init, chartable_module_config                          *)
(***************************************************************************)
\* rspamd_mempool_alloc0, then max_word_len = 10
chartable_module_init ==
    [symbol |-> NULL, url_symbol |-> NULL, threshold |-> RZero, max_word_len |-> 10,
     registered |-> FALSE]

\* an option of the module's configuration section: absent, present and of the
\* wrong type, or present with a value
Absent(v) == [present |-> FALSE, ok |-> FALSE, val |-> v]
Invalid(v) == [present |-> TRUE, ok |-> FALSE, val |-> v]
Given(v) == [present |-> TRUE, ok |-> TRUE, val |-> v]

ThresholdOptions ==
    { Absent(RZero), Invalid(RZero), Given(Rat(1, 4)), Given(R_2_0), Given(Rat(-1, 4)) }
WordLenOptions == { Absent(0), Given(3), Given(20) }
SymbolOptions == { Absent(NULL), Given("SYM") }
UrlSymbolOptions == { Absent(NULL), Given("URL_SYM") }

ConfigOptions ==
    [enabled : BOOLEAN, symbol : SymbolOptions, url_symbol : UrlSymbolOptions,
     threshold : ThresholdOptions, max_word_len : WordLenOptions]

\* the configurations the entry points are run under: the defaults, the module
\* disabled, and sections that set some or all of the options, one of them
\* with a threshold below zero (any double is taken)
SampleOptions ==
    { [enabled |-> TRUE, symbol |-> Absent(NULL), url_symbol |-> Absent(NULL),
       threshold |-> Absent(RZero), max_word_len |-> Absent(0)],
      [enabled |-> FALSE, symbol |-> Absent(NULL), url_symbol |-> Absent(NULL),
       threshold |-> Absent(RZero), max_word_len |-> Absent(0)],
      [enabled |-> TRUE, symbol |-> Given("SYM"), url_symbol |-> Given("URL_SYM"),
       threshold |-> Given(Rat(1, 4)), max_word_len |-> Given(20)],
      [enabled |-> TRUE, symbol |-> Absent(NULL), url_symbol |-> Given("URL_SYM"),
       threshold |-> Given(R_2_0), max_word_len |-> Given(20)],
      [enabled |-> TRUE, symbol |-> Given("SYM"), url_symbol |-> Absent(NULL),
       threshold |-> Invalid(RZero), max_word_len |-> Given(3)],
      [enabled |-> TRUE, symbol |-> Absent(NULL), url_symbol |-> Absent(NULL),
       threshold |-> Given(Rat(1, 4)), max_word_len |-> Absent(0)],
      [enabled |-> TRUE, symbol |-> Absent(NULL), url_symbol |-> Absent(NULL),
       threshold |-> Given(Rat(-1, 4)), max_word_len |-> Given(20)] }

\* an option of the wrong type leaving the threshold as it was
ConfigThreshold_KeepInvalid(c, opt) ==
    IF opt.present
    THEN IF ~opt.ok THEN c.threshold ELSE opt.val
    ELSE DEFAULT_THRESHOLD

\* the threshold after the "threshold" option was read
ConfigThreshold(c, opt) ==
    IF opt.present
    THEN IF ~opt.ok THEN DEFAULT_THRESHOLD ELSE opt.val
    ELSE DEFAULT_THRESHOLD

\* the "max_word_len" option: the else branch stores the default threshold
ConfigWordLen(c, opt) ==
    IF opt.present
    THEN [c EXCEPT !.max_word_len = opt.val]
    ELSE [c EXCEPT !.threshold = DEFAULT_THRESHOLD]

chartable_module_config(c, opts) ==
    IF ~opts.enabled THEN c
    ELSE LET c1 == [c EXCEPT !.symbol = IF opts.symbol.present
                                        THEN opts.symbol.val ELSE DEFAULT_SYMBOL]
             c2 == [c1 EXCEPT !.url_symbol = IF opts.url_symbol.present
                                             THEN opts.url_symbol.val
                                             ELSE DEFAULT_URL_SYMBOL]
             c3 == [c2 EXCEPT !.threshold = ConfigThreshold(c2, opts.threshold)]
             c4 == ConfigWordLen(c3, opts.max_word_len)
         IN  [c4 EXCEPT !.registered = TRUE]

(***************************************************************************)
(* The pieces the entry points share                                       *)
(***************************************************************************)
\* a score above 2.0 dropped to nothing
ClampScore_ToZero(score) == IF RGt(score, R_2_0) THEN RZero ELSE score

\* the cap set at 3.0
ClampScore_AtThree(score) == IF RGt(score, Rat(3, 1)) THEN Rat(3, 1) ELSE score

\* the average left as it is
ClampScore_None(score) == score

\* if (cur_score > 2.0) cur_score = 2.0
ClampScore(score) == IF RGt(score, R_2_0) THEN R_2_0 ELSE score

\* the comparison turned around
ExceedsThreshold_Reversed(score, threshold) == RGt(threshold, score)

\* the comparison with >= in place of >
ExceedsThreshold_NonStrict(score, threshold) == ~RGt(threshold, score)

\* if (cur_score > chartable_module_ctx->threshold)
ExceedsThreshold(score, threshold) == RGt(score, threshold)

\* the result inserted twice over
InsertResult_Twice(res, symbol, score, opt, site) ==
    res \o << [symbol |-> symbol, opt |-> opt, site |-> site],
              [symbol |-> symbol, opt |-> opt, site |-> site] >>

\* rspamd_task_insert_result (task, symbol, score, opt), called from `site`;
\* the score of the call is kept in `last`, not in the list
InsertResult(res, symbol, score, opt, site) ==
    Append(res, [symbol |-> symbol, opt |-> opt, site |-> site])

\* the comparison with the threshold and the report that depends on it
Report(res, c, symbol, score, opt, site) ==
    IF ExceedsThreshold(score, c.threshold)
    THEN InsertResult(res, symbol, score, opt, site)
    ELSE res

\* what the last comparison was made on, and whether a result was inserted
Compared(before, after, score, site) ==
    [site |-> site, score |-> score, emitted |-> Len(after) > Len(before)]

Init ==
    /\ ctx = chartable_module_init
    /\ latin_confusable_ht = HT_NULL
    /\ pc = "init"
    /\ ScanIdle
    /\ AuxIdle

ModuleConfig ==
    /\ UNCHANGED aux_vars
    /\ pc = "init"
    /\ \E opts \in SampleOptions : ctx' = chartable_module_config(ctx, opts)
    /\ pc' = "idle"
    /\ UNCHANGED <<iterated, latin_confusable_ht, todo, part_idx, part, wi, cur_score, ncap, w,
                   results, last>>

\* the scheduler takes up the next message: both callbacks are owed to it
NewTask ==
    /\ UNCHANGED aux_vars
    /\ pc = "idle"
    /\ ctx.registered
    /\ todo = {}
    /\ todo' = {"symbol", "url"}
    /\ results' = <<>>
    /\ last' = NoCmp
    /\ w' = NoWord
    /\ part' = NoPart
    /\ part_idx' = 0
    /\ wi' = 0
    /\ cur_score' = RZero
    /\ ncap' = 0
    /\ iterated' = 0
    /\ UNCHANGED <<ctx, latin_confusable_ht, pc>>

(***************************************************************************)
(* chartable_symbol_callback and rspamd_chartable_process_part             *)
(***************************************************************************)
\* a text part: NULL or without a word array, or an array of len words, UTF
\* or not, with the capital letters counted in it before the module runs
PartShapes ==
    { NoPart } \cup
    [words_null : {FALSE}, len : 0..MaxWords, utf : BOOLEAN, capital_letters : {3}]

\* task->subject: NULL, or a string the tokenizer turns into len words
SubjectShapes == [null : BOOLEAN, len : 0..MaxWords]

\* the body of the word loop of rspamd_chartable_process_part for one word:
\* what it adds to cur_score and to ncap, the table afterwards, the scorer used
PartWordScore(p, word, text, ht, c) ==
    IF Len(word) > 0 /\ text
    THEN IF p.utf
         THEN LET r == rspamd_chartable_process_word_utf(word, FALSE, TRUE, ht,
                                                         c.max_word_len)
              IN  [badness |-> r.badness, ncap |-> r.ncap, ht |-> r.ht, path |-> "utf"]
         ELSE LET r == rspamd_chartable_process_word_ascii(word, FALSE, c.max_word_len)
              IN  [badness |-> r.badness, ncap |-> 0, ht |-> ht, path |-> "ascii"]
    ELSE [badness |-> RZero, ncap |-> 0, ht |-> ht, path |-> "none"]

\* the sum capped without being divided
AverageScore_NoDivision(sum, len) == ClampScore(sum)

\* cur_score /= len; if (cur_score > 2.0) cur_score = 2.0
AverageScore(sum, len) == ClampScore(RDivN(sum, len))

SymbolCallbackBegin ==
    /\ UNCHANGED aux_vars
    /\ pc = "idle"
    /\ "symbol" \in todo
    /\ pc' = "parts"
    /\ part_idx' = 0
    /\ part' = NoPart
    /\ w' = NoWord
    /\ last' = NoCmp
    /\ iterated' = 0
    /\ UNCHANGED <<ctx, latin_confusable_ht, todo, wi, cur_score, ncap, results>>

\* the next text part: rspamd_chartable_process_part up to its word loop
ProcessPartBegin ==
    /\ UNCHANGED aux_vars
    /\ pc = "parts"
    /\ part_idx < MaxParts
    /\ \E p \in PartShapes :
         /\ part' = p
         /\ IF p.words_null \/ p.len = 0
            THEN /\ pc' = "parts"
                 /\ part_idx' = part_idx + 1
            ELSE /\ pc' = "part"
                 /\ part_idx' = part_idx
    /\ wi' = 0
    /\ ncap' = 0
    /\ cur_score' = RZero
    /\ w' = NoWord
    /\ last' = NoCmp
    /\ UNCHANGED <<ctx, iterated, latin_confusable_ht, todo, results>>

ProcessPartWord ==
    /\ UNCHANGED aux_vars
    /\ pc = "part"
    /\ wi < part.len
    /\ \E tok \in SampleTokens :
         LET r == PartWordScore(part, tok.bytes, tok.text, latin_confusable_ht, ctx)
         IN  /\ cur_score' = RAdd(cur_score, r.badness)
             /\ ncap' = ncap + r.ncap
             /\ latin_confusable_ht' = r.ht
             /\ w' = [bytes |-> tok.bytes, text |-> tok.text, path |-> r.path]
    /\ wi' = wi + 1
    /\ UNCHANGED <<ctx, iterated, pc, todo, part_idx, part, results, last>>

\* after the word loop: the capital letters, the average, the cap, the report
ProcessPartEnd ==
    /\ UNCHANGED aux_vars
    /\ pc = "part"
    /\ wi = part.len
    /\ part' = [part EXCEPT !.capital_letters = @ + ncap]
    /\ LET score == AverageScore(cur_score, part.len)
       IN  /\ results' = Report(results, ctx, ctx.symbol, score, NULL, "part")
           /\ last' = Compared(results, results', score, "part")
    /\ pc' = "parts"
    /\ part_idx' = part_idx + 1
    /\ wi' = 0
    /\ ncap' = 0
    /\ cur_score' = RZero
    /\ UNCHANGED <<ctx, iterated, latin_confusable_ht, todo, w>>

\* the parts are exhausted: the subject, up to its word loop
SubjectBegin ==
    /\ UNCHANGED aux_vars
    /\ pc = "parts"
    /\ \E subj \in SubjectShapes :
         IF subj.null \/ subj.len = 0
         THEN /\ pc' = "idle"
              /\ todo' = todo \ {"symbol"}
              /\ part' = NoPart
         ELSE /\ pc' = "subject"
              /\ todo' = todo
              /\ part' = [words_null |-> FALSE, len |-> subj.len, utf |-> TRUE,
                          capital_letters |-> 0]
    /\ wi' = 0
    /\ cur_score' = RZero
    /\ ncap' = 0
    /\ part_idx' = 0
    /\ w' = NoWord
    /\ last' = NoCmp
    /\ UNCHANGED <<ctx, iterated, latin_confusable_ht, results>>

\* the subject's tokens sent to the byte path
SubjectWordScore_BytePath(word, ht, c) ==
    [badness |-> rspamd_chartable_process_word_ascii(word, FALSE, c.max_word_len).badness,
     ht |-> ht]

\* the body of the subject's word loop for one token
SubjectWordScore(word, ht, c) ==
    rspamd_chartable_process_word_utf(word, FALSE, FALSE, ht, c.max_word_len)

SubjectWord ==
    /\ UNCHANGED aux_vars
    /\ pc = "subject"
    /\ wi < part.len
    /\ \E word \in SampleWords :
         LET r == SubjectWordScore(word, latin_confusable_ht, ctx)
         IN  /\ cur_score' = RAdd(cur_score, r.badness)
             /\ latin_confusable_ht' = r.ht
             /\ w' = [bytes |-> word, text |-> TRUE, path |-> "utf"]
    /\ wi' = wi + 1
    /\ UNCHANGED <<ctx, iterated, pc, todo, part_idx, part, ncap, results, last>>

SubjectEnd ==
    /\ UNCHANGED aux_vars
    /\ pc = "subject"
    /\ wi = part.len
    /\ LET score == AverageScore(cur_score, part.len)
       IN  /\ results' = Report(results, ctx, ctx.symbol, score, "subject", "subject")
           /\ last' = Compared(results, results', score, "subject")
    /\ pc' = "idle"
    /\ todo' = todo \ {"symbol"}
    /\ wi' = 0
    /\ cur_score' = RZero
    /\ UNCHANGED <<ctx, iterated, latin_confusable_ht, part_idx, part, ncap, w>>

(***************************************************************************)
(* chartable_url_symbol_callback                                           *)
(***************************************************************************)
\* every host handed to the Unicode scorer, valid UTF-8 or not
HostScore_AlwaysUnicode(host, ht, c) ==
    IF Len(host) > 0
    THEN LET r == rspamd_chartable_process_word_utf(host, TRUE, FALSE, ht,
                                                    c.max_word_len)
         IN  [badness |-> r.badness, ht |-> r.ht, path |-> "utf"]
    ELSE [badness |-> RZero, ht |-> ht, path |-> "none"]

\* the body of either hash-table loop for an entry that is scored
HostScore(host, ht, c) ==
    IF Len(host) > 0
    THEN IF g_utf8_validate(host)
         THEN LET r == rspamd_chartable_process_word_utf(host, TRUE, FALSE, ht,
                                                         c.max_word_len)
              IN  [badness |-> r.badness, ht |-> r.ht, path |-> "utf"]
         ELSE LET r == rspamd_chartable_process_word_ascii(host, TRUE, c.max_word_len)
              IN  [badness |-> r.badness, ht |-> ht, path |-> "ascii"]
    ELSE [badness |-> RZero, ht |-> ht, path |-> "none"]

\* the guard with >= in place of >
LoopBreaks_AtTwo(score) == ~RGt(R_2_0, score)

\* the guard at the head of either loop body
LoopBreaks(score) == RGt(score, R_2_0)

\* the symbol the hostname detection is inserted under
UrlReportSymbol(c) == c.symbol

UrlCallbackBegin ==
    /\ UNCHANGED aux_vars
    /\ pc = "idle"
    /\ "url" \in todo
    /\ pc' = "urls"
    /\ part_idx' = 0
    /\ cur_score' = RZero
    /\ part' = NoPart
    /\ w' = NoWord
    /\ last' = NoCmp
    /\ iterated' = 0
    /\ UNCHANGED <<ctx, latin_confusable_ht, todo, wi, ncap, results>>

\* g_hash_table_iter_next (task->urls) returned an entry
UrlNext ==
    /\ UNCHANGED aux_vars
    /\ pc = "urls"
    /\ part_idx < MaxHosts
    /\ \E host \in SampleHosts :
         IF LoopBreaks(cur_score)
         THEN /\ cur_score' = R_2_0
              /\ pc' = "emails"
              /\ part_idx' = 0
              /\ UNCHANGED <<latin_confusable_ht, w>>
         ELSE LET r == HostScore(host, latin_confusable_ht, ctx)
              IN  /\ cur_score' = RAdd(cur_score, r.badness)
                  /\ latin_confusable_ht' = r.ht
                  /\ w' = [bytes |-> host, text |-> TRUE, path |-> r.path]
                  /\ pc' = "urls"
                  /\ part_idx' = part_idx + 1
    /\ iterated' = iterated + 1
    /\ UNCHANGED <<ctx, todo, part, wi, ncap, results, last>>

\* g_hash_table_iter_next (task->urls) returned FALSE
UrlDone ==
    /\ UNCHANGED aux_vars
    /\ pc = "urls"
    /\ pc' = "emails"
    /\ part_idx' = 0
    /\ UNCHANGED <<ctx, iterated, latin_confusable_ht, todo, part, wi, cur_score, ncap, w,
                   results, last>>

\* the end of the callback, with the sum the loops left
UrlFinish(score) ==
    /\ cur_score' = RZero
    /\ results' = Report(results, ctx, UrlReportSymbol(ctx), score, NULL, "url")
    /\ last' = Compared(results, results', score, "url")
    /\ pc' = "idle"
    /\ todo' = todo \ {"url"}

\* g_hash_table_iter_next (task->emails) returned an entry
EmailNext ==
    /\ UNCHANGED aux_vars
    /\ pc = "emails"
    /\ part_idx < MaxHosts
    /\ \E host \in SampleHosts :
         IF LoopBreaks(cur_score)
         THEN /\ UrlFinish(R_2_0)
              /\ part_idx' = 0
              /\ UNCHANGED <<latin_confusable_ht, w>>
         ELSE LET r == HostScore(host, latin_confusable_ht, ctx)
              IN  /\ cur_score' = RAdd(cur_score, r.badness)
                  /\ latin_confusable_ht' = r.ht
                  /\ w' = [bytes |-> host, text |-> TRUE, path |-> r.path]
                  /\ part_idx' = part_idx + 1
                  /\ UNCHANGED <<pc, todo, results, last>>
    /\ iterated' = iterated + 1
    /\ UNCHANGED <<ctx, part, wi, ncap>>

\* g_hash_table_iter_next (task->emails) returned FALSE
EmailDone ==
    /\ UNCHANGED aux_vars
    /\ pc = "emails"
    /\ UrlFinish(cur_score)
    /\ part_idx' = 0
    /\ UNCHANGED <<ctx, iterated, latin_confusable_ht, part, wi, ncap, w>>

Next ==
    \/ ModuleConfig
    \/ NewTask
    \/ SymbolCallbackBegin
    \/ ProcessPartBegin
    \/ ProcessPartWord
    \/ ProcessPartEnd
    \/ SubjectBegin
    \/ SubjectWord
    \/ SubjectEnd
    \/ UrlCallbackBegin
    \/ UrlNext
    \/ UrlDone
    \/ EmailNext
    \/ EmailDone

Spec == Init /\ [][Next]_vars

(***************************************************************************)
(* Properties of the entry points                                          *)
(***************************************************************************)
CountSite(site) == Cardinality({ i \in 1..Len(results) : results[i].site = site })

LastResult == results[Len(results)]

DefaultConfig ==
    /\ ctx.symbol = DEFAULT_SYMBOL
    /\ ctx.url_symbol = DEFAULT_URL_SYMBOL
    /\ ctx.threshold = DEFAULT_THRESHOLD
    /\ ctx.max_word_len = 10

\* C1: whichever entry point compared an aggregate with the threshold, a
\* result was inserted exactly when the aggregate was strictly greater than
\* the threshold; an aggregate equal to or below it inserts nothing.
C1_ReportOnlyAboveThreshold ==
    last.site # "none" => (last.emitted <=> RGt(last.score, ctx.threshold))

\* an aggregate equal to the threshold was compared and nothing was inserted
C1_Witness ==
    /\ last.site # "none"
    /\ last.score = ctx.threshold
    /\ ~last.emitted

\* C2 as stated: for one message the body-text entry point inserts at most
\* one result, the subject at most one and the hostnames at most one.
C2_AtMostOncePerEntryPoint ==
    /\ CountSite("part") <= 1
    /\ CountSite("subject") <= 1
    /\ CountSite("url") <= 1

\* C2 as amended: at most one result per text part processed, at most one
\* for the subject and at most one for the hostnames.
C2_AtMostOncePerPart ==
    /\ pc \in {"parts", "part"} => CountSite("part") <= part_idx
    /\ CountSite("part") <= MaxParts
    /\ CountSite("subject") <= 1
    /\ CountSite("url") <= 1

\* two text parts of one message were each reported
C2_Witness ==
    /\ pc = "parts"
    /\ part_idx = 2
    /\ CountSite("part") = 2

\* C3: the sum the hostname detection compares with the threshold and
\* reports is at most 2.0.
C3_HostScoreAtMostTwo ==
    last.site = "url" => RLe(last.score, R_2_0)

\* C4: the average a text part or the subject compares with the threshold
\* and reports is at most 2.0.
C4_AverageAtMostTwo ==
    last.site \in {"part", "subject"} => RLe(last.score, R_2_0)

\* a part whose only word has badness 9/4 was compared at 2.0
C4_Witness ==
    /\ last.site = "part"
    /\ part.len = 1
    /\ w = [bytes |-> W_two_switches, text |-> TRUE, path |-> "utf"]
    /\ ctx.max_word_len >= 7
    /\ last.score = R_2_0

\* C6: every result of the hostname detection is inserted under url_symbol
\* and carries no context label.
C6_UrlResultUnderUrlSymbol ==
    \A i \in 1..Len(results) :
        results[i].site = "url"
            => results[i].symbol = ctx.url_symbol /\ results[i].opt = NULL

\* a valid-UTF-8 part whose only word is U+03C9 "indow" has just been
\* compared, under threshold 0.1 and max_word_len 10
OmegaPartCompared ==
    /\ pc = "parts"
    /\ last.site = "part"
    /\ part.len = 1
    /\ part.utf
    /\ w = [bytes |-> W_omega_indow, text |-> TRUE, path |-> "utf"]
    /\ ctx.threshold = DEFAULT_THRESHOLD
    /\ ctx.max_word_len = 10

\* C9 as stated: that part yields one detection under the body symbol with
\* a score above 0.1.
C9_OmegaWordDetected ==
    OmegaPartCompared =>
        /\ last.emitted
        /\ LastResult = [symbol |-> ctx.symbol, opt |-> NULL, site |-> "part"]
        /\ RGt(last.score, DEFAULT_THRESHOLD)

\* C9 as amended: that part yields no detection, its score is 0.0.
C9_OmegaWordNotDetected ==
    OmegaPartCompared => ~last.emitted /\ last.score = RZero

C9_Witness == OmegaPartCompared

\* the hostname callback has ended for a message with one URL, no email and
\* the default configuration
OneUrlCompared ==
    /\ pc = "idle"
    /\ last.site = "url"
    /\ iterated = 1
    /\ w.path # "none"
    /\ DefaultConfig

\* C10: the host "p" U+0430 "ypal.com" yields exactly one detection, under
\* the URL symbol; the host "paypal.com" yields none.
C10_PaypalHostDetected ==
    OneUrlCompared =>
        /\ w.bytes = H_paypal_cyr_a =>
             /\ last.emitted
             /\ CountSite("url") = 1
             /\ LastResult.site = "url"
             /\ LastResult.symbol = ctx.url_symbol
        /\ w.bytes = H_paypal => ~last.emitted /\ CountSite("url") = 0

(***************************************************************************)
(* Per-word runs: each scorer applied to one word                          *)
(***************************************************************************)
\* the max_word_len values the words are scored under
WordLens == {2, 10, 24}

InitWord ==
    /\ \E m \in WordLens : ctx = [chartable_module_init EXCEPT !.max_word_len = m]
    /\ latin_confusable_ht \in {HT_NULL, BuildConfusable}
    /\ pc = "word"
    /\ ScanIdle
    /\ word_in \in [bytes : WordPool, is_url : BOOLEAN]
    /\ word_out = NoWordOut
    /\ ht_heap = <<>>
    /\ ht_global = 0
    /\ tasks = <<>>
    /\ late_write = FALSE
    /\ module_opts = NoOptions
    /\ OrderIdle
    /\ StepIdle

\* rspamd_chartable_process_word_utf (task, w, is_url, &ncap, ctx)
ScoreWordUtf ==
    /\ pc = "word"
    /\ ~word_out.utf_done
    /\ LET r == rspamd_chartable_process_word_utf(word_in.bytes, word_in.is_url, TRUE,
                                                  latin_confusable_ht, ctx.max_word_len)
       IN  /\ word_out' = [word_out EXCEPT !.utf_done = TRUE, !.utf = r]
           /\ latin_confusable_ht' = r.ht
    /\ UNCHANGED <<ctx, scan_vars, word_in, race_vars, config_vars, order_vars, step_vars>>

\* rspamd_chartable_process_word_ascii (task, w, is_url, ctx)
ScoreWordAscii ==
    /\ pc = "word"
    /\ ~word_out.ascii_done
    /\ word_out' = [word_out EXCEPT
                      !.ascii_done = TRUE,
                      !.ascii = rspamd_chartable_process_word_ascii(
                                    word_in.bytes, word_in.is_url, ctx.max_word_len)]
    /\ UNCHANGED <<ctx, latin_confusable_ht, scan_vars, word_in, race_vars, config_vars,
                   order_vars, step_vars>>

NextWord ==
    \/ ScoreWordUtf
    \/ ScoreWordAscii

SpecWord == InitWord /\ [][NextWord]_vars

InRange(badness) == RLe(RZero, badness) /\ RLe(badness, R_4_0)

\* C5: the badness either scorer returns for a word lies in [0.0, 4.0],
\* whatever the word, the hostname flag and max_word_len.
C5_WordBadnessInRange ==
    /\ word_out.utf_done => InRange(word_out.utf.badness)
    /\ word_out.ascii_done => InRange(word_out.ascii.badness)

\* both scorers ran on a word whose penalties add up to more than 4.0 on
\* either path, and each returned 4.0
C5_Witness ==
    /\ word_out.utf_done
    /\ RGt(word_out.utf.raw, R_4_0)
    /\ word_out.utf.nsym <= ctx.max_word_len
    /\ word_out.utf.badness = R_4_0
    /\ word_out.ascii_done
    /\ RGt(word_out.ascii.raw, R_4_0)
    /\ word_out.ascii.badness = R_4_0

(***************************************************************************)
(* Concurrent runs: several tasks inside rspamd_can_alias_latin            *)
(*                                                                         *)
(* The function takes no lock, so its reads and writes of the global and   *)
(* of the table interleave freely.  A caller may use the pointer it holds  *)
(* in a register or read the global again: both are outcomes of the build. *)
(***************************************************************************)
NumTasks == 2

\* the code points the callers test: U+0430 (in the table), U+03C9 (not in it)
RaceChars == {1072, 969}

NoTask == [pc |-> "idle", ch |-> 0, i |-> 0, own |-> 0, seen |-> 0, keys |-> {},
           res |-> FALSE]

\* latin_confusable_ht as the single-task code sees it
GlobalView(heap, ptr) ==
    [null |-> ptr = 0, keys |-> IF ptr = 0 THEN {} ELSE heap[ptr]]

InitRace ==
    /\ ctx = chartable_module_init
    /\ latin_confusable_ht = HT_NULL
    /\ pc = "race"
    /\ ScanIdle
    /\ word_in = NoWordIn
    /\ word_out = NoWordOut
    /\ ht_heap = <<>>
    /\ ht_global = 0
    /\ tasks = [t \in 1..NumTasks |-> NoTask]
    /\ late_write = FALSE
    /\ module_opts = NoOptions
    /\ OrderIdle
    /\ StepIdle

\* if (latin_confusable_ht == NULL)
RaceCheck(t) ==
    /\ tasks[t].pc = "idle"
    /\ \E ch \in RaceChars :
         tasks' = [tasks EXCEPT ![t].ch = ch,
                                ![t].seen = ht_global,
                                ![t].pc = IF ht_global = 0 THEN "new" ELSE "lookup"]
    /\ UNCHANGED <<ctx, latin_confusable_ht, scan_vars, word_vars, config_vars, order_vars, step_vars, ht_heap,
                   ht_global, late_write>>

\* latin_confusable_ht = g_hash_table_new (g_int_hash, g_int_equal)
RaceNew(t) ==
    /\ tasks[t].pc = "new"
    /\ ht_heap' = Append(ht_heap, {})
    /\ ht_global' = Len(ht_heap) + 1
    /\ tasks' = [tasks EXCEPT ![t].own = Len(ht_heap) + 1, ![t].i = 0,
                              ![t].pc = "insert"]
    /\ latin_confusable_ht' = GlobalView(ht_heap', ht_global')
    /\ UNCHANGED <<ctx, scan_vars, word_vars, config_vars, order_vars, step_vars, late_write>>

\* g_hash_table_insert (latin_confusable_ht, &latin_confusable[i], ...); i ++
RaceInsert(t) ==
    /\ tasks[t].pc = "insert"
    /\ tasks[t].i < G_N_ELEMENTS(latin_confusable)
    /\ \E target \in {tasks[t].own, ht_global} :
         ht_heap' = [ht_heap EXCEPT ![target] = @ \cup {latin_confusable[tasks[t].i + 1]}]
    /\ tasks' = [tasks EXCEPT ![t].i = @ + 1,
                              ![t].pc = IF tasks[t].i + 1 < G_N_ELEMENTS(latin_confusable)
                                        THEN "insert" ELSE "lookup"]
    /\ late_write' = (late_write \/ \E u \in DOMAIN tasks : tasks[u].pc = "done")
    /\ latin_confusable_ht' = GlobalView(ht_heap', ht_global)
    /\ UNCHANGED <<ctx, scan_vars, word_vars, config_vars, order_vars, step_vars, ht_global>>

\* return g_hash_table_lookup (latin_confusable_ht, &ch) != NULL
RaceLookup(t) ==
    /\ tasks[t].pc = "lookup"
    /\ \E target \in {tasks[t].own, tasks[t].seen, ht_global} \ {0} :
         tasks' = [tasks EXCEPT ![t].keys = ht_heap[target],
                                ![t].res = tasks[t].ch \in ht_heap[target],
                                ![t].pc = "done"]
    /\ UNCHANGED <<ctx, latin_confusable_ht, scan_vars, word_vars, config_vars, order_vars, step_vars, ht_heap,
                   ht_global, late_write>>

NextRace ==
    \/ \E t \in 1..NumTasks : RaceCheck(t)
    \/ \E t \in 1..NumTasks : RaceNew(t)
    \/ \E t \in 1..NumTasks : RaceInsert(t)
    \/ \E t \in 1..NumTasks : RaceLookup(t)

SpecRace == InitRace /\ [][NextRace]_vars

\* C7: whatever the interleaving, a caller's membership test reads the
\* fully built table, never an absent or a partly filled one.
C7_LookupOnFullTable ==
    \A t \in DOMAIN tasks :
        tasks[t].pc = "done" => tasks[t].keys = BuildConfusable.keys

\* C8: whatever the interleaving, one table is made, and no insert happens
\* once a lookup has been done.
C8_BuiltOnceNeverRewritten ==
    /\ Len(ht_heap) <= 1
    /\ ~late_write


(***************************************************************************)
(* The scorers character by character                                      *)
(*                                                                         *)
(* Both loops run left to right, so the locals after the first k           *)
(* characters of a word are the locals at the end of its k-character       *)
(* prefix, and the penalty a character adds is the difference of the two   *)
(* running sums around it.                                                 *)
(***************************************************************************)
\* the code points the while loop of the Unicode path decodes from offset i
\* on: it stops at the end of the word or at the first invalid one
RECURSIVE CodePointsFrom(_, _)
CodePointsFrom(s, i) ==
    IF i >= Len(s) THEN <<>>
    ELSE LET r == U8_NEXT(s, i, Len(s))
         IN  IF r.uc < 0 THEN <<>> ELSE <<r.uc>> \o CodePointsFrom(s, r.i)

CodePoints(s) == CodePointsFrom(s, 0)

\* the offset i after k code points were decoded
RECURSIVE OffsetAfter(_, _, _)
OffsetAfter(s, i, k) ==
    IF k = 0 THEN i ELSE OffsetAfter(s, U8_NEXT(s, i, Len(s)).i, k - 1)

\* badness in the Unicode path after the first k code points of s
UtfBadnessAfter(s, is_url, k) ==
    UtfLoop(UtfLocals(HT_NULL), SubSeq(s, 1, OffsetAfter(s, 0, k)), is_url, TRUE).badness

\* badness in the byte path after the first k bytes of s
AsciiBadnessAfter(s, is_url, k) ==
    AsciiLoop(AsciiLocals, SubSeq(s, 1, k), is_url).badness

\* an alphabetic code point of the Latin bucket, of another bucket
IsLatinAlpha(uc) == u_isalpha(uc) /\ UtfScript(uc) = UBLOCK_BASIC_LATIN
IsForeignAlpha(uc) == u_isalpha(uc) /\ UtfScript(uc) # UBLOCK_BASIC_LATIN

\* a non-Latin letter of the confusable table
IsConfusable(uc) == IsForeignAlpha(uc) /\ g_hash_table_lookup(BuildConfusable, uc)

\* a byte the byte path takes for a letter
IsAlphaByte(b) == g_ascii_isalpha(b) \/ b > 127

\* the Unicode scorer has returned and had decoded the whole word
UtfScoredWhole ==
    /\ word_out.utf_done
    /\ OffsetAfter(word_in.bytes, 0, Len(CodePoints(word_in.bytes))) = Len(word_in.bytes)

\* C14: a word made of letters of one script bucket only, without digits,
\* has Unicode-path badness 0.0.
C14_SingleScriptScoresZero ==
    LET cps == CodePoints(word_in.bytes)
    IN  (/\ UtfScoredWhole
         /\ \A k \in 1..Len(cps) : u_isalpha(cps[k])
         /\ \A j, k \in 1..Len(cps) : UtfScript(cps[j]) = UtfScript(cps[k]))
        => word_out.utf.raw = RZero /\ word_out.utf.badness = RZero

\* U+0430 U+0410 U+0430, three Cyrillic letters of the confusable table,
\* scored 0.0
C14_Witness ==
    /\ word_out.utf_done
    /\ word_in.bytes = <<208, 176, 208, 144, 208, 176>>
    /\ word_out.utf.nsym = 3
    /\ word_out.utf.badness = RZero

\* C15: a word of more than max_word_len code points scores 0.0 in the
\* Unicode path, whatever the scan added up; a word of more than max_word_len
\* bytes scores 0.0 in the byte path and none of its bytes is scanned.
C15_LongWordScoresZero ==
    /\ (word_out.utf_done /\ Len(CodePoints(word_in.bytes)) > ctx.max_word_len)
          => /\ word_out.utf.badness = RZero
             /\ word_out.utf.nsym = Len(CodePoints(word_in.bytes))
    /\ (word_out.ascii_done /\ Len(word_in.bytes) > ctx.max_word_len)
          => word_out.ascii.badness = RZero /\ word_out.ascii.scanned = 0

\* a word of 11 characters was scored by both paths under max_word_len 10:
\* the Unicode scan had added a penalty and 0.0 was returned, the byte path
\* returned 0.0 without scanning
C15_Witness ==
    /\ ctx.max_word_len = 10
    /\ word_in.bytes = W_eleven
    /\ word_out.utf_done
    /\ word_out.utf.nsym = 11
    /\ RGt(word_out.utf.raw, RZero)
    /\ word_out.utf.badness = RZero
    /\ word_out.ascii_done
    /\ word_out.ascii.scanned = 0
    /\ word_out.ascii.badness = RZero

\* the word's code points alternate between a Latin letter and a letter of
\* the confusable table at every position, starting with either
Alternates(cps) ==
    /\ Len(cps) >= 2
    /\ \E first \in {0, 1} :
         \A k \in 1..Len(cps) :
            IF (k + first) % 2 = 1 THEN IsLatinAlpha(cps[k]) ELSE IsConfusable(cps[k])

\* C12: a word of at most max_word_len characters that alternates a Latin
\* letter and a confusable letter at every character has Unicode-path
\* badness above 0.0 and at most 4.0.
C12_AlternatingWordPenalised ==
    LET cps == CodePoints(word_in.bytes)
    IN  (UtfScoredWhole /\ Alternates(cps) /\ Len(cps) <= ctx.max_word_len)
        => RGt(word_out.utf.badness, RZero) /\ RLe(word_out.utf.badness, R_4_0)

\* the length of the run of Latin letters that ends at position k
RECURSIVE LatinRunEndingAt(_, _)
LatinRunEndingAt(cps, k) ==
    IF k = 0 \/ ~IsLatinAlpha(cps[k]) THEN 0 ELSE 1 + LatinRunEndingAt(cps, k - 1)

\* C13: a confusable letter that follows a run of n Latin letters adds
\* exactly 1/n to the Unicode-path badness, n being the length of the whole
\* run.
C13_PenaltyIsInverseRunLength ==
    LET cps == CodePoints(word_in.bytes)
    IN  word_out.utf_done =>
          \A k \in 2..Len(cps) :
             (IsConfusable(cps[k]) /\ IsLatinAlpha(cps[k - 1]))
             => UtfBadnessAfter(word_in.bytes, word_in.is_url, k)
                  = RAdd(UtfBadnessAfter(word_in.bytes, word_in.is_url, k - 1),
                         Rat(1, LatinRunEndingAt(cps, k - 1)))

\* the character at position k of s adds `expected` to the Unicode-path badness
DigitToAlphaAdds(s, is_url, k, expected) ==
    UtfBadnessAfter(s, is_url, k) = RAdd(UtfBadnessAfter(s, is_url, k - 1), expected)

\* C16 as stated: outside hostname context a non-Latin letter right after a
\* digit, not being the first character of the word, adds exactly 0.25; a
\* Latin letter after a digit adds nothing.
C16_DigitToForeignAlphaAddsQuarter ==
    LET cps == CodePoints(word_in.bytes)
    IN  (word_out.utf_done /\ ~word_in.is_url) =>
          \A k \in 2..Len(cps) :
             (u_isalpha(cps[k]) /\ u_isdigit(cps[k - 1]))
             => DigitToAlphaAdds(word_in.bytes, FALSE, k,
                                 IF IsForeignAlpha(cps[k]) THEN R_0_25 ELSE RZero)

\* C16 as amended: the 0.25 is added when, besides, the digit run is not at
\* the very start of the word; otherwise, and in hostname context, and for a
\* Latin letter, nothing is added.
C16_DigitRunNotFirstAddsQuarter ==
    LET cps == CodePoints(word_in.bytes)
    IN  word_out.utf_done =>
          /\ word_out.utf.raw
               = UtfBadnessAfter(word_in.bytes, word_in.is_url, Len(cps))
          /\ \A k \in 2..Len(cps) :
                (u_isalpha(cps[k]) /\ u_isdigit(cps[k - 1]))
                => DigitToAlphaAdds(word_in.bytes, word_in.is_url, k,
                      IF /\ ~word_in.is_url
                         /\ IsForeignAlpha(cps[k])
                         /\ \E j \in 1..(k - 1) : ~u_isdigit(cps[j])
                      THEN R_0_25 ELSE RZero)

\* "a1" U+0430 was scored outside hostname context: 0.25
C16_Witness ==
    /\ word_out.utf_done
    /\ ~word_in.is_url
    /\ word_in.bytes = <<97, 49, 208, 176>>
    /\ word_out.utf.nsym <= ctx.max_word_len
    /\ word_out.utf.badness = R_0_25

\* C17: in the byte path a letter or high byte right after a digit adds
\* exactly 0.25 if and only if the word is not a hostname, the byte is not an
\* ASCII hex digit and a letter or high byte came earlier in the word;
\* otherwise it adds nothing.
C17_ByteDigitToAlphaAddsQuarter ==
    LET s == word_in.bytes
    IN  (word_out.ascii_done /\ Len(s) <= ctx.max_word_len) =>
          /\ word_out.ascii.raw = AsciiBadnessAfter(s, word_in.is_url, Len(s))
          /\ \A k \in 2..Len(s) :
                (IsAlphaByte(s[k]) /\ g_ascii_isdigit(s[k - 1]))
                => AsciiBadnessAfter(s, word_in.is_url, k)
                     = RAdd(AsciiBadnessAfter(s, word_in.is_url, k - 1),
                            IF /\ ~word_in.is_url
                               /\ ~g_ascii_isxdigit(s[k])
                               /\ \E j \in 1..(k - 1) : IsAlphaByte(s[j])
                            THEN R_0_25 ELSE RZero)

\* "a1y" was scored by the byte path outside hostname context: 0.25
C17_Witness ==
    /\ word_out.ascii_done
    /\ ~word_in.is_url
    /\ word_in.bytes = <<97, 49, 121>>
    /\ word_out.ascii.scanned = 3
    /\ word_out.ascii.raw = R_0_25

\* the positions up to k of cps where the Unicode path adds the digit ->
\* alpha penalty outside hostname context
UtfQualifying(cps, k) ==
    { j \in 2..k : /\ IsForeignAlpha(cps[j])
                   /\ u_isdigit(cps[j - 1])
                   /\ \E i \in 1..(j - 1) : ~u_isdigit(cps[i]) }

\* the same for the byte path
AsciiQualifying(s, k) ==
    { j \in 2..k : /\ IsAlphaByte(s[j])
                   /\ ~g_ascii_isxdigit(s[j])
                   /\ g_ascii_isdigit(s[j - 1])
                   /\ \E i \in 1..(j - 1) : IsAlphaByte(s[i]) }

\* a text part routed to the Unicode path (utf) or to the byte path
PartRouted(utf) ==
    [words_null |-> FALSE, len |-> 1, utf |-> utf, capital_letters |-> 0]

\* C18: at every character of a word the badness with the hostname flag set
\* is the badness with the flag clear less 0.25 for each qualifying digit ->
\* alpha transition so far, on both paths; the hostname callback scores with
\* the flag set, the text parts and the subject with the flag clear.
C18_HostnameFlagOnlySuppressesDigitPenalty ==
    LET s == word_in.bytes
        cps == CodePoints(s)
        ht == latin_confusable_ht
        m == ctx.max_word_len
    IN  (word_out.utf_done /\ word_out.ascii_done) =>
          /\ word_out.utf.raw = UtfBadnessAfter(s, word_in.is_url, Len(cps))
          /\ word_out.ascii.scanned > 0
                => word_out.ascii.raw = AsciiBadnessAfter(s, word_in.is_url, Len(s))
          /\ \A k \in 0..Len(cps) :
                RAdd(UtfBadnessAfter(s, TRUE, k),
                     Rat(Cardinality(UtfQualifying(cps, k)), 4))
                  = UtfBadnessAfter(s, FALSE, k)
          /\ \A k \in 0..Len(s) :
                RAdd(AsciiBadnessAfter(s, TRUE, k),
                     Rat(Cardinality(AsciiQualifying(s, k)), 4))
                  = AsciiBadnessAfter(s, FALSE, k)
          /\ HostScore(s, ht, ctx).badness
               = IF Len(s) = 0 THEN RZero
                 ELSE IF g_utf8_validate(s)
                 THEN rspamd_chartable_process_word_utf(s, TRUE, FALSE, ht, m).badness
                 ELSE rspamd_chartable_process_word_ascii(s, TRUE, m).badness
          /\ Len(s) > 0 =>
                /\ PartWordScore(PartRouted(TRUE), s, TRUE, ht, ctx).badness
                     = rspamd_chartable_process_word_utf(s, FALSE, TRUE, ht, m).badness
                /\ PartWordScore(PartRouted(FALSE), s, TRUE, ht, ctx).badness
                     = rspamd_chartable_process_word_ascii(s, FALSE, m).badness
          /\ SubjectWordScore(s, ht, ctx).badness
               = rspamd_chartable_process_word_utf(s, FALSE, FALSE, ht, m).badness

\* "aa" U+0430 "1" U+0430 "a" U+0430 was scored as a hostname by both paths:
\* the Unicode path gave 2.0 where it gives 2.25 with the flag clear, the
\* byte path one 0.25 less than with the flag clear
C18_Witness ==
    /\ word_in.is_url
    /\ word_in.bytes = W_two_switches
    /\ ctx.max_word_len >= 10
    /\ word_out.utf_done
    /\ word_out.utf.badness = R_2_0
    /\ UtfBadnessAfter(W_two_switches, FALSE, 7) = Rat(9, 4)
    /\ word_out.ascii_done
    /\ RAdd(word_out.ascii.raw, R_0_25)
         = AsciiBadnessAfter(W_two_switches, FALSE, Len(W_two_switches))

(***************************************************************************)
(* The word loops of the text parts and of the subject, step by step       *)
(***************************************************************************)
AsciiOnly(s) == \A i \in 1..Len(s) : s[i] < 128

\* steps of rspamd_chartable_process_part: entering the word loop, one
\* iteration of it, the code after it
PartLoopEntered == pc = "parts" /\ pc' = "part"
PartWordStep == pc = "part" /\ pc' = "part" /\ wi' = wi + 1
PartEndStep == pc = "part" /\ pc' = "parts"

\* steps of the subject's block: one iteration of its loop, the code after it
SubjectWordStep == pc = "subject" /\ pc' = "subject" /\ wi' = wi + 1
SubjectEndStep == pc = "subject" /\ pc' = "idle"

\* min (2.0, sum / n)
CappedAverage(sum, n) ==
    LET avg == RDivN(sum, n) IN IF RGt(avg, R_2_0) THEN R_2_0 ELSE avg

\* an ASCII-only word that adds nothing on the path of part p: any on the
\* Unicode path, one without a penalised digit -> letter transition on the
\* byte path
PlainAsciiWord(p, s) ==
    /\ AsciiOnly(s)
    /\ p.utf \/ AsciiQualifying(s, Len(s)) = {}

\* a threshold of at least 0.1
AtLeastDefault(threshold) == RLe(DEFAULT_THRESHOLD, threshold)

C19_AverageOverAllWords ==
    [][ /\ PartLoopEntered => cur_score' = RZero /\ wi' = 0 /\ part'.len > 0
        /\ PartWordStep =>
              /\ part' = part
              /\ cur_score' =
                   RAdd(cur_score,
                        IF Len(w'.bytes) = 0 \/ ~w'.text THEN RZero
                        ELSE IF part.utf
                        THEN rspamd_chartable_process_word_utf(
                                 w'.bytes, FALSE, TRUE, latin_confusable_ht,
                                 ctx.max_word_len).badness
                        ELSE rspamd_chartable_process_word_ascii(
                                 w'.bytes, FALSE, ctx.max_word_len).badness)
        /\ PartEndStep =>
              /\ wi = part.len
              /\ last'.site = "part"
              /\ last'.score = CappedAverage(cur_score, part.len)
      ]_vars

\* a part of two words, the second of them not scored, was compared at 0.5:
\* the first word's 1.0 over two words
C19_Witness ==
    /\ last.site = "part"
    /\ part.len = 2
    /\ w.path = "none"
    /\ Len(w.bytes) > 0
    /\ last.score = Rat(1, 2)
    /\ last.emitted

\* C20: every token of the subject goes to the Unicode path with the
\* hostname flag clear and without an uppercase counter; the score is
\* min (2.0, sum / number of tokens); a result is inserted under ctx.symbol
\* with the option "subject" when the score exceeds the threshold; results of
\* the text parts and of the hostnames carry no option.
C20_SubjectScoredOnUnicodePath ==
    [][ /\ SubjectWordStep =>
              /\ cur_score' =
                   RAdd(cur_score,
                        rspamd_chartable_process_word_utf(
                            w'.bytes, FALSE, FALSE, latin_confusable_ht,
                            ctx.max_word_len).badness)
              /\ w'.path = "utf"
              /\ ncap' = ncap
              /\ part' = part
        /\ SubjectEndStep =>
              /\ wi = part.len
              /\ last'.site = "subject"
              /\ last'.score = CappedAverage(cur_score, part.len)
              /\ results' =
                   IF RGt(last'.score, ctx.threshold)
                   THEN Append(results, [symbol |-> ctx.symbol, opt |-> "subject",
                                         site |-> "subject"])
                   ELSE results
        /\ \A i \in 1..Len(results') :
              results'[i].opt = IF results'[i].site = "subject" THEN "subject" ELSE NULL
      ]_vars

\* a subject of two tokens, the last of them two capital Cyrillic letters,
\* was reported with the option "subject"; no capital letter was counted
C20_Witness ==
    /\ last.site = "subject"
    /\ part.len = 2
    /\ w.bytes = <<208, 144, 208, 144>>
    /\ ncap = 0
    /\ last.emitted
    /\ LastResult = [symbol |-> ctx.symbol, opt |-> "subject", site |-> "subject"]

(***************************************************************************)
(* The two loops of chartable_url_symbol_callback, step by step            *)
(***************************************************************************)
\* an entry was scored; the guard broke out of the loop; the set was exhausted
UrlScoreStep == pc = "urls" /\ pc' = "urls"
UrlBreakStep == pc = "urls" /\ pc' = "emails" /\ iterated' = iterated + 1
UrlEndStep == pc = "urls" /\ pc' = "emails" /\ iterated' = iterated
EmailScoreStep == pc = "emails" /\ pc' = "emails"
EmailBreakStep == pc = "emails" /\ pc' = "idle" /\ iterated' = iterated + 1
EmailEndStep == pc = "emails" /\ pc' = "idle" /\ iterated' = iterated

\* C21: no entry is scored once the sum exceeds 2.0, and each pass leaves a
\* sum of at most 2.0 behind, also when its last entry was the one that
\* pushed the sum above 2.0.
C21_ClampAfterEachAddition ==
    [][ /\ (UrlScoreStep \/ EmailScoreStep) => RLe(cur_score, R_2_0)
        /\ (UrlBreakStep \/ UrlEndStep) => RLe(cur_score', R_2_0)
        /\ (EmailBreakStep \/ EmailEndStep) => RLe(last'.score, R_2_0)
      ]_vars

\* C22: the URL pass starts from 0.0 and the email pass from what the URL
\* pass left (clamped to 2.0 if its guard broke the loop); no URL is scored
\* once the email pass has begun; an entry is scored, and its badness added,
\* whenever the sum is at most 2.0, so also on a sum of exactly 2.0 that the
\* URL pass clamped; the final sum is what the email pass left.
C22_SharedRunningSum ==
    [][ /\ (pc = "idle" /\ pc' = "urls") => cur_score' = RZero
        /\ UrlScoreStep =>
              cur_score' = RAdd(cur_score,
                                HostScore(w'.bytes, BuildConfusable, ctx).badness)
        /\ UrlEndStep => cur_score' = cur_score
        /\ UrlBreakStep => RGt(cur_score, R_2_0) /\ cur_score' = R_2_0
        /\ pc = "emails" => pc' # "urls"
        /\ (pc = "emails" /\ iterated' = iterated + 1 /\ RLe(cur_score, R_2_0))
              => /\ EmailScoreStep
                 /\ cur_score' = RAdd(cur_score,
                                      HostScore(w'.bytes, BuildConfusable,
                                                ctx).badness)
        /\ EmailBreakStep => RGt(cur_score, R_2_0) /\ last'.score = R_2_0
        /\ EmailEndStep => last'.score = cur_score
      ]_vars

\* the guard broke the URL loop at its second entry, the sum was clamped to
\* 2.0, and the first email entry added 1.0 to it
C22_Witness ==
    /\ pc = "emails"
    /\ iterated = 3
    /\ part_idx = 1
    /\ cur_score = Rat(3, 1)

(***************************************************************************)
(* The capital letters counter and words that end in an undecodable byte   *)
(***************************************************************************)
\* the uppercase letters outside the Latin bucket among the code points the
\* Unicode scorer decodes
UpperForeignCount(s) ==
    LET cps == CodePoints(s)
    IN  Cardinality({ k \in 1..Len(cps) : IsForeignAlpha(cps[k]) /\ u_isupper(cps[k]) })

\* C23: the word loop of a part starts its counter at 0; a word adds to it
\* the number of uppercase non-Latin letters decoded in it when the word is
\* not empty, is textual and the part is UTF (whatever badness the word is
\* given), and nothing otherwise; at the end of the loop the counter is added
\* to the part's capital_letters.  The subject and the hostnames change
\* neither the counter nor any part.
C23_CapitalLettersCounted ==
    [][ /\ PartLoopEntered => ncap' = 0
        /\ PartWordStep =>
              /\ ncap' = ncap + (IF Len(w'.bytes) > 0 /\ w'.text /\ part.utf
                                 THEN UpperForeignCount(w'.bytes) ELSE 0)
              /\ part' = part
        /\ PartEndStep => part' = [part EXCEPT !.capital_letters = @ + ncap]
        /\ (SubjectWordStep \/ SubjectEndStep) => ncap' = ncap /\ part' = part
        /\ (pc \in {"urls", "emails"}) => ncap' = ncap /\ part' = part
      ]_vars

\* a one-word UTF part whose word was zeroed for its length, its capital
\* letter counted all the same
C23_Witness ==
    /\ last.site = "part"
    /\ part.utf
    /\ part.len = 1
    /\ w.bytes = W_upper_cut
    /\ w.path = "utf"
    /\ ctx.max_word_len < 4
    /\ last.score = RZero
    /\ part.capital_letters = 4

\* the offset, from i on, of the first code point of s that cannot be
\* decoded, or the length of s
RECURSIVE DecodableLen(_, _)
DecodableLen(s, i) ==
    IF i >= Len(s) THEN Len(s)
    ELSE LET r == U8_NEXT(s, i, Len(s))
         IN  IF r.uc < 0 THEN i ELSE DecodableLen(s, r.i)

\* the bytes of s before the first code point that cannot be decoded
DecodablePrefix(s) == SubSeq(s, 1, DecodableLen(s, 0))

\* a word or token the Unicode scorer leaves before its end
CutShort(s) == DecodableLen(s, 0) < Len(s)

\* C24: a word of the Unicode path that holds a code point which cannot be
\* decoded adds to the sum the badness of the prefix before that code point,
\* length guard and cap applied to that prefix; as long as words remain, the
\* next step is the next word, whatever the word before was.
C24_InvalidCodePointEndsWord ==
    [][ /\ (PartWordStep /\ w'.path = "utf" /\ CutShort(w'.bytes)) =>
              cur_score' =
                RAdd(cur_score,
                     rspamd_chartable_process_word_utf(
                         DecodablePrefix(w'.bytes), FALSE, TRUE, BuildConfusable,
                         ctx.max_word_len).badness)
        /\ (SubjectWordStep /\ CutShort(w'.bytes)) =>
              cur_score' =
                RAdd(cur_score,
                     rspamd_chartable_process_word_utf(
                         DecodablePrefix(w'.bytes), FALSE, FALSE, BuildConfusable,
                         ctx.max_word_len).badness)
        /\ (pc \in {"part", "subject"} /\ wi < part.len) =>
              pc' = pc /\ wi' = wi + 1
      ]_vars

\* the first word of a two-word part was cut short at its fifth code point
\* and brought the 0.5 of the four before it; the second word is still to come
C24_Witness ==
    /\ pc = "part"
    /\ part.utf
    /\ part.len = 2
    /\ wi = 1
    /\ w.bytes = W_upper_cut
    /\ CutShort(w.bytes)
    /\ w.path = "utf"
    /\ cur_score = Rat(1, 2)

(***************************************************************************)
(* Empty inputs                                                            *)
(***************************************************************************)
\* a part without words was taken, the subject was absent or had no tokens
EmptyPartStep == pc = "parts" /\ pc' = "parts"
NoSubjectStep == pc = "parts" /\ pc' = "idle"

\* C25 as stated: empty URL and email sets produce no detection.
C25_EmptyHostSetsNotDetected ==
    (last.site = "url" /\ iterated = 0) => ~last.emitted

\* C25 as amended: a part without words and an absent or empty subject are
\* left without a comparison (so without a division) and without a result; a
\* word of zero length and an empty host change neither the sum nor the
\* counter; empty URL and email sets leave a sum of 0.0, which is reported
\* only under a threshold below zero.
C25_EmptyInputsAreNoOps ==
    [][ /\ EmptyPartStep =>
              /\ part'.words_null \/ part'.len = 0
              /\ results' = results
              /\ last'.site = "none"
              /\ ncap' = 0
        /\ NoSubjectStep => results' = results /\ last'.site = "none"
        /\ ((PartWordStep \/ SubjectWordStep) /\ Len(w'.bytes) = 0) =>
              /\ cur_score' = cur_score
              /\ ncap' = ncap
              /\ part' = part
              /\ results' = results
        /\ (PartEndStep \/ SubjectEndStep) => part.len > 0
        /\ ((UrlScoreStep \/ EmailScoreStep) /\ Len(w'.bytes) = 0) =>
              cur_score' = cur_score /\ results' = results
        /\ (EmailEndStep /\ iterated = 0) =>
              /\ last'.score = RZero
              /\ RLe(RZero, ctx.threshold) => results' = results
      ]_vars

\* under the default threshold the hostname callback compared the 0.0 of
\* empty URL and email sets and reported nothing
C25_Witness ==
    /\ last.site = "url"
    /\ iterated = 0
    /\ last.score = RZero
    /\ ctx.threshold = DEFAULT_THRESHOLD
    /\ ~last.emitted
    /\ results = <<>>

(***************************************************************************)
(* chartable_module_config on every configuration section                  *)
(***************************************************************************)
\* The context handed to chartable_module_config is the one
\* chartable_module_init has just made; what the loader does on a reload is
\* not part of these sources.
InitConfig ==
    /\ ctx = chartable_module_init
    /\ latin_confusable_ht = HT_NULL
    /\ pc = "config"
    /\ ScanIdle
    /\ AuxIdle

ConfigureModule ==
    /\ pc = "config"
    /\ \E opts \in ConfigOptions :
         /\ module_opts' = opts
         /\ ctx' = chartable_module_config(ctx, opts)
    /\ pc' = "configured"
    /\ UNCHANGED <<latin_confusable_ht, todo, part_idx, part, wi, cur_score, ncap, w,
                   results, last, iterated, word_vars, race_vars, order_vars, step_vars>>

NextConfig == ConfigureModule

SpecConfig == InitConfig /\ [][NextConfig]_vars

\* the module is enabled and its section has been read
Configured == pc = "configured" /\ module_opts.enabled

C27_SuppliedThresholdEffective ==
    (Configured /\ module_opts.threshold.present /\ module_opts.threshold.ok)
        => ctx.threshold = module_opts.threshold.val

(***************************************************************************)
(* Runs of letters                                                         *)
(***************************************************************************)
\* the locals of the Unicode scorer after the first k code points of s, of
\* the byte scorer after the first k bytes
UtfLocalsAfter(s, is_url, k) ==
    UtfLoop(UtfLocals(HT_NULL), SubSeq(s, 1, OffsetAfter(s, 0, k)), is_url, TRUE)

AsciiLocalsAfter(s, is_url, k) == AsciiLoop(AsciiLocals, SubSeq(s, 1, k), is_url)

\* what character k of s adds on either path
UtfAddedAt(s, is_url, k) ==
    [before |-> UtfBadnessAfter(s, is_url, k - 1), after |-> UtfBadnessAfter(s, is_url, k)]

AsciiAddedAt(s, is_url, k) ==
    [before |-> AsciiBadnessAfter(s, is_url, k - 1),
     after |-> AsciiBadnessAfter(s, is_url, k)]

\* C28: on either path the run counter is 0 after a digit and after any
\* other character that is not a letter; the letter that follows adds no
\* 1/run_length: it adds 0.25 when the digit -> letter rule applies to it and
\* nothing otherwise, whatever run came before.
C28_NonLettersResetRun ==
    LET s == word_in.bytes
        u == word_in.is_url
        cps == CodePoints(s)
    IN  /\ word_out.utf_done =>
              /\ \A k \in 1..Len(cps) :
                    ~u_isalpha(cps[k]) => UtfLocalsAfter(s, u, k).same_script_count = 0
              /\ \A k \in 2..Len(cps) :
                    (u_isalpha(cps[k]) /\ ~u_isalpha(cps[k - 1])) =>
                        /\ UtfAddedAt(s, u, k).after =
                             RAdd(UtfAddedAt(s, u, k).before,
                                  IF ~u /\ k \in UtfQualifying(cps, k)
                                  THEN R_0_25 ELSE RZero)
                        /\ UtfLocalsAfter(s, u, k).same_script_count = 0
        /\ word_out.ascii_done =>
              /\ \A k \in 1..Len(s) :
                    ~IsAlphaByte(s[k]) => AsciiLocalsAfter(s, u, k).same_script_count = 0
              /\ \A k \in 2..Len(s) :
                    (IsAlphaByte(s[k]) /\ ~IsAlphaByte(s[k - 1])) =>
                        /\ AsciiAddedAt(s, u, k).after =
                             RAdd(AsciiAddedAt(s, u, k).before,
                                  IF ~u /\ k \in AsciiQualifying(s, k)
                                  THEN R_0_25 ELSE RZero)
                        /\ AsciiLocalsAfter(s, u, k).same_script_count = 0

\* both scorers ran on "a" "." U+0430: a Latin letter, a full stop, a
\* confusable Cyrillic letter, and neither added anything
C28_Witness ==
    /\ word_in.bytes = <<97, 46, 208, 176>>
    /\ word_out.utf_done
    /\ word_out.ascii_done
    /\ word_out.utf.nsym = 3
    /\ word_out.utf.raw = RZero
    /\ word_out.ascii.raw = RZero
    /\ word_out.ascii.scanned = 4

\* the code points i..k of cps are letters
LettersOnly(cps, i, k) == \A j \in i..k : u_isalpha(cps[j])

\* code point k of s added something to the badness of the Unicode path
UtfPenalisedAt(s, is_url, k) ==
    UtfAddedAt(s, is_url, k).after # UtfAddedAt(s, is_url, k).before

\* C30: on the Unicode path no two letters of one run of letters are
\* penalised; a Latin letter that follows a non-Latin letter which was not
\* the first of the run adds nothing, counts into the run and leaves the
\* tracked bucket non-Latin, and no later letter of the run adds anything.
C30_OneSwitchPenaltyPerRun ==
    LET s == word_in.bytes
        u == word_in.is_url
        cps == CodePoints(s)
    IN  word_out.utf_done =>
          /\ \A i \in 2..Len(cps), k \in 2..Len(cps) :
                (i < k /\ LettersOnly(cps, i - 1, k)) =>
                    ~(UtfPenalisedAt(s, u, i) /\ UtfPenalisedAt(s, u, k))
          /\ \A k \in 3..Len(cps) :
                (/\ IsLatinAlpha(cps[k])
                 /\ IsForeignAlpha(cps[k - 1])
                 /\ u_isalpha(cps[k - 2])) =>
                    /\ ~UtfPenalisedAt(s, u, k)
                    /\ UtfLocalsAfter(s, u, k).same_script_count =
                         UtfLocalsAfter(s, u, k - 1).same_script_count + 1
                    /\ UtfLocalsAfter(s, u, k).last_is_latin = 0
                    /\ \A m \in (k + 1)..Len(cps) :
                          LettersOnly(cps, k, m) => ~UtfPenalisedAt(s, u, m)

\* the Unicode scorer ran on "aa" U+0430 "a" U+0430: the first Cyrillic
\* letter was penalised with 1.0, the second one was not
C30_Witness ==
    /\ word_in.bytes = W_switch_back
    /\ word_out.utf_done
    /\ word_out.utf.nsym = 5
    /\ word_out.utf.raw = Rat(1, 1)
    /\ UtfPenalisedAt(word_in.bytes, word_in.is_url, 3)
    /\ ~UtfPenalisedAt(word_in.bytes, word_in.is_url, 5)

(***************************************************************************)
(* Which scorer a word or a host is handed to                              *)
(***************************************************************************)
\* what the one scorer named by path returns for s
ScoredBy(path, s, is_url, ht, max_word_len) ==
    IF path = "utf"
    THEN rspamd_chartable_process_word_utf(s, is_url, FALSE, ht, max_word_len).badness
    ELSE IF path = "ascii"
    THEN rspamd_chartable_process_word_ascii(s, is_url, max_word_len).badness
    ELSE RZero

\* C29: a step of the word loop of a part takes one word and adds the value
\* of one scorer: the Unicode one when the word is not empty, is textual and
\* the part is UTF, the byte one when the part is not UTF, none for other
\* words; a step of either hostname loop takes one entry and adds the value
\* of one scorer in hostname context: the Unicode one when the host is valid
\* UTF-8, the byte one when it is not, none for an empty host.
C29_OneScorerPerWord ==
    [][ /\ PartWordStep =>
              /\ w'.path = IF Len(w'.bytes) = 0 \/ ~w'.text THEN "none"
                           ELSE IF part.utf THEN "utf" ELSE "ascii"
              /\ cur_score' = RAdd(cur_score,
                                   ScoredBy(w'.path, w'.bytes, FALSE,
                                            BuildConfusable, ctx.max_word_len))
        /\ (UrlScoreStep \/ EmailScoreStep) =>
              /\ w'.path = IF Len(w'.bytes) = 0 THEN "none"
                           ELSE IF g_utf8_validate(w'.bytes) THEN "utf" ELSE "ascii"
              /\ cur_score' = RAdd(cur_score,
                                   ScoredBy(w'.path, w'.bytes, TRUE,
                                            BuildConfusable, ctx.max_word_len))
              /\ part_idx' = part_idx + 1
              /\ iterated' = iterated + 1
      ]_vars

\* the first URL's host "aa" 0xFF is not valid UTF-8: the byte scorer gave
\* it 1.0, which the Unicode scorer would not have
C29_Witness ==
    /\ pc = "urls"
    /\ iterated = 1
    /\ w.bytes = W_bytes_switch
    /\ ~g_utf8_validate(w.bytes)
    /\ w.path = "ascii"
    /\ cur_score = Rat(1, 1)
    /\ ScoredBy("utf", w.bytes, TRUE, BuildConfusable, ctx.max_word_len) = RZero

(***************************************************************************)
(* The byte path's two classes of letters                                  *)
(***************************************************************************)
\* the bytes k - 1 and k of s are letters, one below 0x80 and one above 0x7f
ClassChangeAt(s, k) ==
    /\ IsAlphaByte(s[k - 1])
    /\ IsAlphaByte(s[k])
    /\ (s[k - 1] > 127) # (s[k] > 127)

\* C31: on the byte path every change between an ASCII letter and a high
\* byte inside a run of letters, in either direction, adds a penalty and
\* leaves the run counter at 1.
C31_EveryClassChangePenalised ==
    LET s == word_in.bytes
        u == word_in.is_url
    IN  word_out.ascii_done =>
          \A k \in 2..Len(s) :
             ClassChangeAt(s, k) =>
                /\ RGt(AsciiAddedAt(s, u, k).after, AsciiAddedAt(s, u, k).before)
                /\ AsciiLocalsAfter(s, u, k).same_script_count = 1

(***************************************************************************)
(* What a word's badness depends on                                        *)
(***************************************************************************)
\* a word, a token or a host was handed to the loop body; in hostname context
WordTaken == PartWordStep \/ SubjectWordStep \/ UrlScoreStep \/ EmailScoreStep
InHostLoop == pc \in {"urls", "emails"}

\* C32: whatever was scored before, in this message or in an earlier one,
\* and whether or not the table had been built by then, the word just taken
\* adds what its scorer returns for it when started afresh with the built
\* table: a value of the word, the hostname flag and max_word_len alone.
C32_BadnessOfWordAlone ==
    [][ WordTaken =>
          /\ cur_score' =
               RAdd(cur_score,
                    ScoredBy(w'.path, w'.bytes, InHostLoop, BuildConfusable,
                             ctx.max_word_len))
          /\ ScoredBy(w'.path, w'.bytes, InHostLoop, latin_confusable_ht,
                      ctx.max_word_len)
               = ScoredBy(w'.path, w'.bytes, InHostLoop, BuildConfusable,
                          ctx.max_word_len)
      ]_vars

\* "aa" U+0430 came second in a UTF part, after a word that ended inside a
\* run of letters with 0.5, and added the 1.0 it adds on its own
C32_Witness ==
    /\ pc = "part"
    /\ part.utf
    /\ wi = 2
    /\ w = [bytes |-> <<97, 97, 208, 176>>, text |-> TRUE, path |-> "utf"]
    /\ ctx.max_word_len = 10
    /\ cur_score = Rat(3, 2)
    /\ ScoredBy("utf", w.bytes, FALSE, BuildConfusable, ctx.max_word_len) = Rat(1, 1)

(***************************************************************************)
(* chartable_url_symbol_callback on given tables, iterated in any order    *)
(***************************************************************************)
\* the hosts of the entries: an empty one, and hosts that score 1.0, 2.0 and
\* 4.0 in hostname context under max_word_len 10
OrderHosts == << <<>>, W_bytes_switch, W_two_switches, W_bytes_alternating >>

\* a hash table of at most MaxHosts entries, as the sequence of its hosts (by
\* their index in OrderHosts) in one fixed order; the order the iterator
\* returns them in is chosen step by step
HostTables ==
    { s \in UNION { [1..n -> 1..Len(OrderHosts)] : n \in 0..MaxHosts } :
        \A i \in 1..(Len(s) - 1) : s[i] <= s[i + 1] }

\* the module configured from a section of an enabled module
EnabledContexts ==
    { chartable_module_config(chartable_module_init, opts) :
        opts \in { o \in SampleOptions : o.enabled } }

InitOrder ==
    /\ ctx \in EnabledContexts
    /\ latin_confusable_ht = HT_NULL
    /\ pc = "urls"
    /\ todo = {"url"}
    /\ part_idx = 0
    /\ part = NoPart
    /\ wi = 0
    /\ cur_score = RZero
    /\ ncap = 0
    /\ w = NoWord
    /\ results = <<>>
    /\ last = NoCmp
    /\ iterated = 0
    /\ word_in = NoWordIn
    /\ word_out = NoWordOut
    /\ ht_heap = <<>>
    /\ ht_global = 0
    /\ tasks = <<>>
    /\ late_write = FALSE
    /\ module_opts = NoOptions
    /\ task_urls \in HostTables
    /\ task_emails \in HostTables
    /\ urls_left = DOMAIN task_urls
    /\ emails_left = DOMAIN task_emails
    /\ StepIdle

\* g_hash_table_iter_next (task->urls) returned the entry i
OrderUrlNext ==
    /\ pc = "urls"
    /\ \E i \in urls_left :
         /\ urls_left' = urls_left \ {i}
         /\ IF LoopBreaks(cur_score)
            THEN /\ cur_score' = ClampScore(cur_score)
                 /\ pc' = "emails"
                 /\ UNCHANGED <<latin_confusable_ht, w>>
            ELSE LET r == HostScore(OrderHosts[task_urls[i]], latin_confusable_ht, ctx)
                 IN  /\ cur_score' = RAdd(cur_score, r.badness)
                     /\ latin_confusable_ht' = r.ht
                     /\ w' = [bytes |-> OrderHosts[task_urls[i]], text |-> TRUE,
                              path |-> r.path]
                     /\ pc' = "urls"
    /\ iterated' = iterated + 1
    /\ UNCHANGED <<ctx, todo, part_idx, part, wi, ncap, results, last, word_vars,
                   race_vars, config_vars, step_vars, task_urls, task_emails,
                   emails_left>>

\* g_hash_table_iter_next (task->urls) returned FALSE
OrderUrlDone ==
    /\ pc = "urls"
    /\ urls_left = {}
    /\ pc' = "emails"
    /\ UNCHANGED <<ctx, latin_confusable_ht, todo, part_idx, part, wi, cur_score, ncap,
                   w, results, last, iterated, aux_vars>>

\* g_hash_table_iter_next (task->emails) returned the entry i
OrderEmailNext ==
    /\ pc = "emails"
    /\ \E i \in emails_left :
         /\ emails_left' = emails_left \ {i}
         /\ IF LoopBreaks(cur_score)
            THEN /\ UrlFinish(ClampScore(cur_score))
                 /\ UNCHANGED <<latin_confusable_ht, w>>
            ELSE LET r == HostScore(OrderHosts[task_emails[i]], latin_confusable_ht, ctx)
                 IN  /\ cur_score' = RAdd(cur_score, r.badness)
                     /\ latin_confusable_ht' = r.ht
                     /\ w' = [bytes |-> OrderHosts[task_emails[i]], text |-> TRUE,
                              path |-> r.path]
                     /\ UNCHANGED <<pc, todo, results, last>>
    /\ iterated' = iterated + 1
    /\ UNCHANGED <<ctx, part_idx, part, wi, ncap, word_vars, race_vars, config_vars,
                   step_vars, task_urls, task_emails, urls_left>>

\* g_hash_table_iter_next (task->emails) returned FALSE
OrderEmailDone ==
    /\ pc = "emails"
    /\ emails_left = {}
    /\ UrlFinish(cur_score)
    /\ UNCHANGED <<ctx, latin_confusable_ht, part_idx, part, wi, ncap, w, iterated,
                   aux_vars>>

NextOrder ==
    \/ OrderUrlNext
    \/ OrderUrlDone
    \/ OrderEmailNext
    \/ OrderEmailDone

SpecOrder == InitOrder /\ [][NextOrder]_vars

\* the badness of all entries of both tables together
RECURSIVE HostsTotal(_, _)
HostsTotal(s, c) ==
    IF s = <<>> THEN RZero
    ELSE RAdd(HostScore(OrderHosts[Head(s)], BuildConfusable, c).badness,
              HostsTotal(Tail(s), c))

TablesTotal == RAdd(HostsTotal(task_urls, ctx), HostsTotal(task_emails, ctx))

\* the callback has returned
OrderDone == pc = "idle" /\ last.site = "url"

\* C33: under a threshold below 2.0 the callback reports exactly when the
\* badness of all entries of both tables together exceeds the threshold, in
\* whatever order the two iterators returned the entries: the outcome is a
\* value of the tables and the threshold alone.
C33_OutcomeIndependentOfOrder ==
    (OrderDone /\ RGt(R_2_0, ctx.threshold)) =>
        (last.emitted <=> RGt(TablesTotal, ctx.threshold))

\* two URLs of 1.0 and 4.0 and no email under the default threshold: the
\* iterator returned the 4.0 first, its second iteration clamped the sum and
\* left the loop, and 2.0 was reported where the other order reports 5.0
C33_Witness ==
    /\ OrderDone
    /\ ctx.threshold = DEFAULT_THRESHOLD
    /\ ctx.max_word_len = 10
    /\ task_urls = <<2, 4>>
    /\ task_emails = <<>>
    /\ TablesTotal = Rat(5, 1)
    /\ last.score = R_2_0
    /\ last.emitted

(***************************************************************************)
(* The cap at 2.0 against a threshold of 2.0 or more                       *)
(***************************************************************************)
\* the threshold of the module configuration is 2.0 or more
ThresholdAtLeastCap == RLe(R_2_0, ctx.threshold)

\* C34: while the threshold of the module configuration is 2.0 or more, no
\* result was inserted by the body-text comparison or by the subject
\* comparison, and the last such comparison inserted none, whatever the
\* message: the average is capped at 2.0 before a strict comparison.
C34_CappedAverageNeverExceeds ==
    ThresholdAtLeastCap =>
        /\ \A i \in DOMAIN results : results[i].site \notin {"part", "subject"}
        /\ last.site \in {"part", "subject"} => ~last.emitted

\* a part whose average was above 2.0 was compared as 2.0 against the
\* threshold 2.0 and not reported
C34_Witness ==
    /\ ThresholdAtLeastCap
    /\ last.site = "part"
    /\ last.score = R_2_0
    /\ ~last.emitted
    /\ pc = "parts"
    /\ part.len = 1
    /\ RGt(ScoredBy(w.path, w.bytes, FALSE, BuildConfusable, ctx.max_word_len), R_2_0)

(***************************************************************************)
(* The word scans pass by pass, and the entry points under a worker that   *)
(* keeps executing                                                         *)
(***************************************************************************)
\* the offset left where it was after a decoded code point
UtfScanStep_Stay(l, s, is_url) ==
    LET r == U8_NEXT(s, l.i, Len(s))
    IN  IF r.uc < 0
        THEN [l |-> [l EXCEPT !.i = r.i], broke |-> TRUE]
        ELSE [l |-> UtfBody(l, r.uc, is_url, TRUE), broke |-> FALSE]

\* one pass of the while loop of rspamd_chartable_process_word_utf: U8_NEXT
\* moves i, then either the break or the body
UtfScanStep(l, s, is_url) ==
    LET r == U8_NEXT(s, l.i, Len(s))
    IN  IF r.uc < 0
        THEN [l |-> [l EXCEPT !.i = r.i], broke |-> TRUE]
        ELSE [l |-> UtfBody([l EXCEPT !.i = r.i], r.uc, is_url, TRUE), broke |-> FALSE]

\* one pass of the while loop of rspamd_chartable_process_word_ascii
AsciiScanStep(l, s, is_url) == AsciiBody(l, s[l.p + 1], is_url)

\* the words scanned pass by pass
ScanWords ==
    NamedWords \cup
    { <<>>, W_switch_back, <<97>>, <<97, 49, 121>>, <<208, 144, 208, 144>>, <<255>>,
      <<97, 255, 98>>, <<208>>, <<45, 49, 97>> }

\* a scorer was just called on a word
InitScan ==
    /\ \E m \in WordLens : ctx = [chartable_module_init EXCEPT !.max_word_len = m]
    /\ latin_confusable_ht = HT_NULL
    /\ pc = "scan"
    /\ ScanIdle
    /\ word_in \in [bytes : ScanWords, is_url : BOOLEAN]
    /\ word_out = NoWordOut
    /\ ht_heap = <<>>
    /\ ht_global = 0
    /\ tasks = <<>>
    /\ late_write = FALSE
    /\ module_opts = NoOptions
    /\ OrderIdle
    /\ scan \in { [path |-> "utf", l |-> UtfLocals(latin_confusable_ht), from |-> 0,
                   stop |-> "none"],
                  [path |-> "ascii", l |-> AsciiLocals, from |-> 0, stop |-> "none"] }

\* the configurations that leave the default threshold, with max_word_len 10
\* and 3: no loop reads the threshold
WorkerContexts == { c \in EnabledContexts : c.threshold = DEFAULT_THRESHOLD }

\* the module is configured and the worker waits for a message
InitWorker ==
    /\ ctx \in WorkerContexts
    /\ latin_confusable_ht = HT_NULL
    /\ pc = "idle"
    /\ ScanIdle
    /\ AuxIdle

InitTerm == InitScan \/ InitWorker

\* while (p + i < end): one more pass
ScanUtfStep ==
    /\ pc = "scan"
    /\ scan.path = "utf"
    /\ scan.stop = "none"
    /\ scan.l.i < Len(word_in.bytes)
    /\ LET r == UtfScanStep(scan.l, word_in.bytes, word_in.is_url)
       IN  scan' = [scan EXCEPT !.l = r.l, !.from = scan.l.i,
                                !.stop = IF r.broke THEN "invalid" ELSE "none"]
    /\ UNCHANGED <<ctx, latin_confusable_ht, scan_vars, word_vars, race_vars,
                   config_vars, order_vars>>

\* after the loop: the length guard, the cap, the return
ScanUtfReturn ==
    /\ pc = "scan"
    /\ scan.path = "utf"
    /\ scan.stop = "invalid" \/ scan.l.i >= Len(word_in.bytes)
    /\ word_out' = [word_out EXCEPT
                      !.utf_done = TRUE,
                      !.utf = [badness |-> UtfFinish(scan.l, ctx.max_word_len),
                               ncap |-> scan.l.ncap, ht |-> scan.l.ht,
                               nsym |-> scan.l.nsym, raw |-> scan.l.badness]]
    /\ latin_confusable_ht' = scan.l.ht
    /\ scan' = [scan EXCEPT !.stop = IF @ = "none" THEN "end" ELSE @]
    /\ pc' = "scanned"
    /\ UNCHANGED <<ctx, todo, part_idx, part, wi, cur_score, ncap, w, results, last,
                   iterated, word_in, race_vars, config_vars, order_vars>>

\* if (w->len > max_word_len) return 0.0
ScanAsciiSkip ==
    /\ pc = "scan"
    /\ scan.path = "ascii"
    /\ Len(word_in.bytes) > ctx.max_word_len
    /\ word_out' = [word_out EXCEPT
                      !.ascii_done = TRUE,
                      !.ascii = [badness |-> RZero, raw |-> RZero, scanned |-> 0]]
    /\ scan' = [scan EXCEPT !.stop = "long"]
    /\ pc' = "scanned"
    /\ UNCHANGED <<ctx, latin_confusable_ht, todo, part_idx, part, wi, cur_score, ncap,
                   w, results, last, iterated, word_in, race_vars, config_vars,
                   order_vars>>

\* while (p < end): one more pass
ScanAsciiStep ==
    /\ pc = "scan"
    /\ scan.path = "ascii"
    /\ Len(word_in.bytes) <= ctx.max_word_len
    /\ scan.l.p < Len(word_in.bytes)
    /\ scan' = [scan EXCEPT !.l = AsciiScanStep(scan.l, word_in.bytes, word_in.is_url),
                            !.from = scan.l.p]
    /\ UNCHANGED <<ctx, latin_confusable_ht, scan_vars, word_vars, race_vars,
                   config_vars, order_vars>>

\* after the loop: the cap, the return
ScanAsciiReturn ==
    /\ pc = "scan"
    /\ scan.path = "ascii"
    /\ Len(word_in.bytes) <= ctx.max_word_len
    /\ scan.l.p >= Len(word_in.bytes)
    /\ word_out' = [word_out EXCEPT
                      !.ascii_done = TRUE,
                      !.ascii = [badness |-> CapBadness(scan.l.badness),
                                 raw |-> scan.l.badness, scanned |-> scan.l.p]]
    /\ scan' = [scan EXCEPT !.stop = "end"]
    /\ pc' = "scanned"
    /\ UNCHANGED <<ctx, latin_confusable_ht, todo, part_idx, part, wi, cur_score, ncap,
                   w, results, last, iterated, word_in, race_vars, config_vars,
                   order_vars>>

\* the steps of a scorer that was called
ScanSteps ==
    \/ ScanUtfStep
    \/ ScanUtfReturn
    \/ ScanAsciiSkip
    \/ ScanAsciiStep
    \/ ScanAsciiReturn

\* the steps of a callback that was called
CallbackSteps ==
    \/ ProcessPartBegin
    \/ ProcessPartWord
    \/ ProcessPartEnd
    \/ SubjectBegin
    \/ SubjectWord
    \/ SubjectEnd
    \/ UrlNext
    \/ UrlDone
    \/ EmailNext
    \/ EmailDone

NextTerm ==
    \/ NewTask
    \/ SymbolCallbackBegin
    \/ UrlCallbackBegin
    \/ ProcessPartBegin
    \/ ProcessPartWord
    \/ ProcessPartEnd
    \/ SubjectBegin
    \/ SubjectWord
    \/ SubjectEnd
    \/ UrlNext
    \/ UrlDone
    \/ EmailNext
    \/ EmailDone
    \/ ScanUtfStep
    \/ ScanUtfReturn
    \/ ScanAsciiSkip
    \/ ScanAsciiStep
    \/ ScanAsciiReturn

\* the thread that entered a scorer or a callback keeps executing it; when
\* the scheduler hands over the next message or callback is left open
SpecTerm == InitTerm /\ [][NextTerm]_vars /\ WF_vars(ScanSteps \/ CallbackSteps)

\* the offset of the scan into the word
ScanOffset(sc) == IF sc.path = "utf" THEN sc.l.i ELSE sc.l.p

InCallback == pc \in {"parts", "part", "subject", "urls", "emails"}

\* every pass of either while loop moves the offset forward and stays
\* inside the word
ScanAdvances ==
    (pc = "scan" /\ scan' # scan /\ pc' = "scan") =>
        /\ ScanOffset(scan') >= ScanOffset(scan) + 1
        /\ ScanOffset(scan') <= Len(word_in.bytes)
        /\ scan'.from = ScanOffset(scan)

\* where a finished scan stopped, and that it returned what the scorer returns
ScanEnds ==
    pc = "scanned" =>
        LET s == word_in.bytes
        IN  /\ scan.path = "utf" =>
               /\ word_out.utf_done
               /\ scan.stop = "end" =>
                    ScanOffset(scan) = Len(s) /\ DecodableLen(s, 0) = Len(s)
               /\ scan.stop = "invalid" =>
                    scan.from = DecodableLen(s, 0) /\ scan.from < Len(s)
               /\ scan.stop \in {"end", "invalid"}
               /\ word_out.utf = rspamd_chartable_process_word_utf(
                                     s, word_in.is_url, TRUE, HT_NULL, ctx.max_word_len)
            /\ scan.path = "ascii" =>
               /\ word_out.ascii_done
               /\ scan.stop = "end" => ScanOffset(scan) = Len(s)
               /\ scan.stop = "long" => ScanOffset(scan) = 0 /\ Len(s) > ctx.max_word_len
               /\ scan.stop \in {"end", "long"}
               /\ word_out.ascii = rspamd_chartable_process_word_ascii(
                                       s, word_in.is_url, ctx.max_word_len)

\* the word loops take the indices 0, 1, ... len - 1 in turn and end after
\* the last; every step of a host loop takes one more entry from its
\* iterator, which returns each entry once
LoopsVisitOnce ==
    /\ (pc = "parts" /\ pc' \in {"part", "subject"}) => wi' = 0
    /\ (pc \in {"part", "subject"} /\ pc' = pc) => wi < part.len /\ wi' = wi + 1
    /\ (pc \in {"part", "subject"} /\ pc' # pc) => wi = part.len
    /\ (pc = "idle" /\ pc' = "urls") => part_idx' = 0 /\ iterated' = 0
    /\ (pc \in {"urls", "emails"} /\ pc' = pc) =>
           /\ part_idx < MaxHosts
           /\ part_idx' = part_idx + 1
           /\ iterated' = iterated + 1
    /\ (pc = "urls" /\ pc' = "emails") => part_idx' = 0
    /\ pc \in {"urls", "emails"} => iterated <= 2 * MaxHosts

\* C35: a scorer that was called returns and a callback that was called
\* returns; until then every pass of a word scan moves the offset forward by
\* one code unit or more, the scan stops at the end of the word or at the
\* first code point that cannot be decoded, the words of a part and the
\* tokens of the subject are taken once each in turn, and each host loop
\* takes an entry of its table no more than once.
C35_EveryInvocationTerminates ==
    /\ (pc = "scan") ~> (pc = "scanned")
    /\ InCallback ~> (pc = "idle")
    /\ [][ScanAdvances /\ LoopsVisitOnce]_vars
    /\ [](ScanEnds)

\* the Unicode scan of a word that ends in the middle of a letter: four
\* passes over code points of two, one, one and two bytes, a fifth that found
\* the cut at offset 6, and the return
C35_Witness ==
    /\ pc = "scanned"
    /\ scan.path = "utf"
    /\ word_in.bytes = W_upper_cut
    /\ scan.stop = "invalid"
    /\ scan.from = 6
    /\ scan.l.nsym = 4
    /\ word_out.utf_done

====
